---- MODULE Spec2Model ----
(***************************************************************************)
(* A model of the debugger-agnostic core of pwndbg: the GDB adapter's      *)
(* selection-restoring operations (pwndbg/dbg/gdb.py), the register        *)
(* facade with its two-generation snapshot (pwndbg/aglib/regs.py) and the  *)
(* memory helpers (pwndbg/aglib/memory.py).                                *)
(*                                                                         *)
(* Python values are encoded as follows.  An optional value is a sequence: *)
(* <<>> is None and <<v>> is the value v.  A dict is a sequence of         *)
(* <<key, value>> pairs in insertion order, or a function whose DOMAIN is  *)
(* the key set where the order is never observed (the memoisation tables). *)
(* A call that may raise returns a record with a field "raised".           *)
(***************************************************************************)
EXTENDS Integers, Sequences, FiniteSets, TLC

\* ------------------------------------------------------------------------
\* Bounds of the model
\* ------------------------------------------------------------------------
NumFrames == 3
NumRegFrames == 2
NumThreads == 3
MaxAddr == 2

FrameIds == 1..NumFrames
RegFrameIds == 1..NumRegFrames
\* contents of a register in the event model
RawVals == {0, 1}
ThreadIds == 1..NumThreads
Addrs == 0..MaxAddr
\* byte values stored in target memory: both sides of the 7-bit boundary
SampleBytes == {0, 65, 127, 128, 255}
Perms == {"none", "r", "rw"}

None == <<>>
Some(v) == <<v>>

\* F applied to the value of e, with e evaluated once
Bind(e, F(_)) == CHOOSE r \in {F(x) : x \in {e}} : TRUE

\* The keys of a dict and the elements of a sequence
Keys(d) == [i \in 1..Len(d) |-> d[i][1]]
SeqRange(q) == {q[i] : i \in 1..Len(q)}

EmptyDict == [k \in {} |-> None]

\* cache_until: the table of a memoised function is emptied when one of the
\* events it names is delivered
cache_clear(event, until, table) ==
    IF event \in until THEN EmptyDict ELSE table

VARIABLES
    \* engine selection state and the record of the last adapter call
    selFrame, selThread, call,
    \* target memory, its permissions and the record of the last helper call
    mem, perm, memcall,
    \* engine: architecture of the selected inferior, registers of each frame,
    \* whether the inferior is running
    arch, frameRegs, running,
    \* facade: memoisation tables of __getattr__ and __getitem__, the two
    \* snapshot generations, and the record of the last facade operation
    attrCache, itemCache, last, previous, regcall,
    \* history: what the facade has returned for each name since the last
    \* stop/prompt event, STOP events since the last register change, and
    \* the progress of a stop / write / continue / stop sequence
    served, quiet, scen,
    \* inputs of the page-boundary search, of the readability check and of
    \* the expression rewriter: which pages of the target are readable, the
    \* enumerated mapping ranges, the text of an expression, and the
    \* memoisation table of is_readable_address
    pages, vmmap, expr, readableCache,
    \* the register set of the current architecture as `all` is given it
    regset,
    \* the engine type wrapped by the GDBType handle a command holds: its
    \* type codes from the outermost derivation down to the base type
    typeInner,
    \* whether the target is remote, the lightweight thread id of each
    \* thread, and the memoisation table of fsbase, gsbase and their helper
    remote, ptids, segCache,
    \* the conditional-branch breakpoints installed, the value the
    \* disassembly assistant currently computes for the condition of the
    \* conditional jump, and the record of the last breakpoint operation
    bps, branchCond, brcall

selVars == <<selFrame, selThread, call>>
memVars == <<mem, perm, memcall>>
engVars == <<arch, frameRegs, running>>
facVars == <<attrCache, itemCache, last, previous, regcall>>
histVars == <<served, quiet, scen>>
regVars == <<arch, frameRegs, running, attrCache, itemCache, last, previous,
             regcall, served, quiet, scen>>
segVars == <<remote, ptids, segCache>>
brVars == <<bps, branchCond, brcall>>
extVars == <<regset, typeInner, segVars, brVars>>
auxVars == <<pages, vmmap, expr, readableCache, extVars>>
vars == <<selFrame, selThread, call, mem, perm, memcall, arch, frameRegs,
          running, attrCache, itemCache, last, previous, regcall, served,
          quiet, scen, pages, vmmap, expr, readableCache, extVars>>

NoCall == [op |-> "none"]

\* ========================================================================
\* GDB adapter: frame- and thread-scoped operations (pwndbg/dbg/gdb.py)
\* ========================================================================

\* Outcomes of the engine calls made inside a scoped operation
EngineOutcomes == {"ok", "select_fails", "call_fails"}

\* GDBFrame.evaluate_expression: the selected frame when the call exits and
\* whether it exits by raising gdb.error
GDBFrame_evaluate_expression(inner, selected, outcome) ==
    LET restore == selected # inner
    IN IF restore /\ outcome = "select_fails"
       THEN \* self.inner.select() raised: nothing was selected yet
            [selected |-> selected, raised |-> TRUE]
       ELSE LET afterSelect == IF restore THEN inner ELSE selected
            IN IF outcome = "call_fails"
               THEN \* gdb.parse_and_eval raised: line 30 is never reached
                    [selected |-> afterSelect, raised |-> TRUE]
               ELSE [selected |-> IF restore THEN selected ELSE afterSelect,
                     raised |-> FALSE]

\* GDBThread.bottom_frame: the selected thread when the call exits and
\* whether it exits by raising gdb.error
GDBThread_bottom_frame(inner, selected, outcome) ==
    LET restore == selected # inner
    IN IF restore /\ outcome = "select_fails"
       THEN [selected |-> selected, raised |-> TRUE]
       ELSE LET afterSwitch == IF restore THEN inner ELSE selected
            IN IF outcome = "call_fails"
               THEN \* gdb.newest_frame raised: line 48 is never reached
                    [selected |-> afterSwitch, raised |-> TRUE]
               ELSE [selected |-> IF restore THEN selected ELSE afterSwitch,
                     raised |-> FALSE]

\* The user (or another command) selects a frame / a thread in the engine
SelectFrame(f) ==
    /\ selFrame' = f
    /\ call' = NoCall
    /\ UNCHANGED <<selThread, memVars, regVars, auxVars>>

SelectThread(t) ==
    /\ selThread' = t
    /\ call' = NoCall
    /\ UNCHANGED <<selFrame, memVars, regVars, auxVars>>

EvaluateExpression(f, outcome) ==
    LET r == GDBFrame_evaluate_expression(f, selFrame, outcome)
    IN /\ selFrame' = r.selected
       /\ call' = [op |-> "evaluate_expression", target |-> f,
                   before |-> selFrame, outcome |-> outcome,
                   raised |-> r.raised]
       /\ UNCHANGED <<selThread, memVars, regVars, auxVars>>

BottomFrame(t, outcome) ==
    LET r == GDBThread_bottom_frame(t, selThread, outcome)
    IN /\ selThread' = r.selected
       /\ call' = [op |-> "bottom_frame", target |-> t,
                   before |-> selThread, outcome |-> outcome,
                   raised |-> r.raised]
       /\ UNCHANGED <<selFrame, memVars, regVars, auxVars>>

\* ------------------------------------------------------------------------
\* GDB adapter: type handles (pwndbg/dbg/gdb.py, class GDBType)
\* ------------------------------------------------------------------------

\* GDBType.CODE_MAPPING, an attribute of the class: lines 108-116
CODE_MAPPING ==
    [c \in {"TYPE_CODE_INT", "TYPE_CODE_UNION", "TYPE_CODE_STRUCT",
            "TYPE_CODE_ENUM", "TYPE_CODE_TYPEDEF", "TYPE_CODE_PTR",
            "TYPE_CODE_ARRAY"} |->
        CASE c = "TYPE_CODE_INT" -> "TypeCode.INT"
          [] c = "TYPE_CODE_UNION" -> "TypeCode.UNION"
          [] c = "TYPE_CODE_STRUCT" -> "TypeCode.STRUCT"
          [] c = "TYPE_CODE_ENUM" -> "TypeCode.ENUM"
          [] c = "TYPE_CODE_TYPEDEF" -> "TypeCode.TYPEDEF"
          [] c = "TYPE_CODE_PTR" -> "TypeCode.POINTER"
          [] c = "TYPE_CODE_ARRAY" -> "TypeCode.ARRAY"]

\* The names bound at the top level of pwndbg/dbg/gdb.py: its imports and
\* its classes
gdb_module_globals ==
    {"annotations", "signal", "gdb", "Callable", "override", "pwndbg",
     "load_commands", "gdb_version", "load_gdblib", "GDBFrame", "GDBThread",
     "GDBProcess", "GDBSession", "GDBCommand", "GDBCommandHandle", "GDBType",
     "GDBValue", "GDB"}

\* Whether a bare name used inside a method body resolves: the method has
\* no local of that name, and the body of the enclosing class is not a
\* scope of its methods, so the name is looked up among the module's
\* globals (no builtin is called CODE_MAPPING)
method_name_resolves(name) == name \in gdb_module_globals

\* GDBType.code for a handle whose inner type has the code inner_code:
\* lines 126-130; the bare name CODE_MAPPING is evaluated first, inside the
\* assert's condition
GDBType_code(inner_code) ==
    IF ~method_name_resolves("CODE_MAPPING")
    THEN [val |-> None, raised |-> "NameError"]
    ELSE IF inner_code \notin DOMAIN CODE_MAPPING
    THEN [val |-> None, raised |-> "AssertionError"]
    ELSE [val |-> Some(CODE_MAPPING[inner_code]), raised |-> "none"]

\* bound of the number of derivations (pointer, array, typedef) of a type
MaxTypeDepth == 2

\* The type codes of derived types
DerivedCodes == {"TYPE_CODE_PTR", "TYPE_CODE_ARRAY", "TYPE_CODE_TYPEDEF"}

\* gdb.Type.strip_typedefs: the type under the outermost typedefs
strip_typedefs(t) ==
    LET n == CHOOSE k \in 0..Len(t) :
                /\ \A i \in 1..k : t[i] = "TYPE_CODE_TYPEDEF"
                /\ k < Len(t) => t[k + 1] # "TYPE_CODE_TYPEDEF"
    IN SubSeq(t, n + 1, Len(t))

\* A command reads the code of the handle it holds
Code ==
    \E r \in {GDBType_code(Head(typeInner))} :
       /\ call' = [op |-> "code", inner_code |-> Head(typeInner),
                   val |-> r.val, raised |-> r.raised]
       /\ UNCHANGED <<typeInner, regset, segVars, brVars, selFrame,
                      selThread, memVars, regVars, pages, vmmap, expr,
                      readableCache>>

\* GDBType.pointer(): a handle of the pointer type
TypePointer ==
    /\ Len(typeInner) <= MaxTypeDepth
    /\ typeInner' = <<"TYPE_CODE_PTR">> \o typeInner
    /\ call' = [op |-> "pointer"]
    /\ UNCHANGED <<regset, segVars, brVars, selFrame, selThread, memVars,
                   regVars, pages, vmmap, expr, readableCache>>

\* GDBType.target(): a handle of the target type; the engine raises for a
\* type that has none
TypeTarget ==
    /\ typeInner' = IF Head(typeInner) \in DerivedCodes THEN Tail(typeInner) ELSE typeInner
    /\ call' = [op |-> "target", raised |-> Head(typeInner) \notin DerivedCodes]
    /\ UNCHANGED <<regset, segVars, brVars, selFrame, selThread, memVars,
                   regVars, pages, vmmap, expr, readableCache>>

\* GDBType.strip_typedefs()
TypeStripTypedefs ==
    /\ typeInner' = strip_typedefs(typeInner)
    /\ call' = [op |-> "strip_typedefs"]
    /\ UNCHANGED <<regset, segVars, brVars, selFrame, selThread, memVars,
                   regVars, pages, vmmap, expr, readableCache>>

\* ========================================================================
\* Memory helpers (pwndbg/aglib/memory.py)
\* ========================================================================

Readable(a) == a \in Addrs /\ perm[a] \in {"r", "rw"}
Writable(a) == a \in Addrs /\ perm[a] = "rw"

\* Process.read_memory with partial=False on the memory m: every byte of the
\* range must be readable, or the engine raises
read_memory(m, addr, count) ==
    IF \A i \in 0..(count - 1) : Readable(addr + i)
    THEN [raised |-> FALSE, data |-> [i \in 1..count |-> m[addr + i - 1]]]
    ELSE [raised |-> TRUE, data |-> <<>>]

\* Process.write_memory with partial=False: all bytes are written, or the
\* engine raises and writes nothing
write_memory(m, addr, data) ==
    IF \A i \in 0..(Len(data) - 1) : Writable(addr + i)
    THEN [raised |-> FALSE,
          mem |-> [a \in Addrs |->
                     IF a >= addr /\ a < addr + Len(data)
                     THEN data[a - addr + 1] ELSE m[a]]]
    ELSE [raised |-> TRUE, mem |-> m]

\* read(addr, count): the non-partial read of the helper
read(m, addr, count) == read_memory(m, addr, count)

\* bytes(data, "utf8") for the one-character strings chr(0)..chr(255)
utf8(cp) ==
    IF cp < 128 THEN <<cp>>
    ELSE <<192 + (cp \div 64), 128 + (cp % 64)>>

\* write(addr, data) where data is a str of one character with code point cp
write(m, addr, cp) == write_memory(m, addr, utf8(cp))

\* peek(address): chr() of the byte, as an optional code point
peek(m, address) ==
    LET r == read(m, address, 1)
    IN IF r.raised THEN None ELSE Some(r.data[1])

\* poke without the try/except around write(): the engine error escapes
poke_unguarded(m, address) ==
    LET c == peek(m, address)
    IN IF c = None
       THEN [ret |-> FALSE, raised |-> FALSE, mem |-> m]
       ELSE LET w == write(m, address, c[1])
            IN [ret |-> ~w.raised, raised |-> w.raised, mem |-> w.mem]

\* poke(address): the return value, whether it raised, and the memory left
poke(m, address) ==
    LET c == peek(m, address)
    IN IF c = None
       THEN [ret |-> FALSE, raised |-> FALSE, mem |-> m]
       ELSE LET w == write(m, address, c[1])
            IN IF w.raised
               THEN [ret |-> FALSE, raised |-> FALSE, mem |-> w.mem]
               ELSE [ret |-> TRUE, raised |-> FALSE, mem |-> w.mem]

Poke(a) ==
    LET r == poke(mem, a)
    IN /\ mem' = r.mem
       /\ memcall' = [op |-> "poke", addr |-> a, ret |-> r.ret,
                      raised |-> r.raised, before |-> mem]
       /\ UNCHANGED <<perm, selVars, regVars, auxVars>>

\* ------------------------------------------------------------------------
\* Null-terminated strings
\* ------------------------------------------------------------------------

\* bound of the max argument of string()
MaxStr == 3

\* The number of consecutive readable bytes from addr on, at most count
ReadablePrefix(addr, count) ==
    CHOOSE k \in 0..count :
        /\ \A i \in 0..(k - 1) : Readable(addr + i)
        /\ k = count \/ ~Readable(addr + k)

\* Process.read_memory with partial=True: the bytes up to the first
\* unreadable one; the engine raises when not even the first can be read
read_memory_partial(m, addr, count) ==
    LET k == ReadablePrefix(addr, count)
    IN IF count > 0 /\ k = 0
       THEN [raised |-> TRUE, data |-> <<>>]
       ELSE [raised |-> FALSE, data |-> [i \in 1..k |-> m[addr + i - 1]]]

\* read(addr, count, partial=True)
read_partial(m, addr, count) == read_memory_partial(m, addr, count)

\* One request made to the target, as the read log records it
ReadReq(addr, count, partial) ==
    [addr |-> addr, count |-> count, partial |-> partial]

\* data.index(b"\x00"): the 0-based position of the first zero byte, or
\* None for ValueError
bytes_index_nul(data) ==
    IF \E i \in 1..Len(data) : data[i] = 0
    THEN Some((CHOOSE i \in 1..Len(data) :
                   data[i] = 0 /\ \A j \in 1..(i - 1) : data[j] # 0) - 1)
    ELSE None

\* string returning the whole read when it holds no zero byte
string_whole_without_nul(m, addr, max) ==
    LET probe == ReadReq(addr, 1, FALSE)
    IN IF peek(m, addr) = None
       THEN [ret |-> <<>>, raised |-> FALSE, reads |-> <<probe>>]
       ELSE LET r == read_partial(m, addr, max)
                i == bytes_index_nul(r.data)
            IN [ret |-> IF i = None THEN r.data ELSE SubSeq(r.data, 1, i[1]),
                raised |-> r.raised,
                reads |-> <<probe, ReadReq(addr, max, TRUE)>>]

\* string without the probe of its first byte
string_unprobed(m, addr, max) ==
    LET r == read_partial(m, addr, max)
        i == bytes_index_nul(r.data)
    IN [ret |-> IF i = None THEN <<>> ELSE SubSeq(r.data, 1, i[1]),
        raised |-> r.raised,
        reads |-> <<ReadReq(addr, max, TRUE)>>]

\* string(addr, max): the bytes returned, whether the call raised, and the
\* reads it issued.  chr() of any byte is a non-empty str, so `if peek(addr)`
\* fails on None only; ValueError from index() falls through to the final
\* return of an empty bytearray
string(m, addr, max) ==
    LET probe == ReadReq(addr, 1, FALSE)
    IN IF peek(m, addr) = None
       THEN [ret |-> <<>>, raised |-> FALSE, reads |-> <<probe>>]
       ELSE LET r == read_partial(m, addr, max)
                i == bytes_index_nul(r.data)
            IN [ret |-> IF i = None THEN <<>> ELSE SubSeq(r.data, 1, i[1]),
                raised |-> r.raised,
                reads |-> <<probe, ReadReq(addr, max, TRUE)>>]

String(a, mx) ==
    \E r \in {string(mem, a, mx)} :
       /\ memcall' = [op |-> "string", addr |-> a, max |-> mx, ret |-> r.ret,
                      raised |-> r.raised, reads |-> r.reads]
       /\ UNCHANGED <<mem, perm, selVars, regVars, auxVars>>

\* ========================================================================
\* Architecture, register catalogue and engine registers
\* ========================================================================

\* 2^n for the widths below the range limit of TLC's integers
Pow2(n) == CASE n = 8 -> 256 [] n = 16 -> 65536 [] n = 24 -> 16777216

\* A non-negative v reduced modulo 2^(8*bytes); every value the model stores
\* is below 2^31, so widths of four bytes and more leave it as it is
Wrap(v, bytes) == IF bytes >= 4 THEN v ELSE v % Pow2(8 * bytes)

\* The value as it is, not masked to pointer width
and_ptrmask_skipped(v) == v

\* v & pwndbg.aglib.arch.ptrmask, ptrmask being (1 << 8*ptrsize) - 1
and_ptrmask(v) == Wrap(v, arch.ptrsize)

\* pwndbg.aglib.arch.ptrmask of an architecture whose pointers are narrower
\* than four bytes
ptrmask == Pow2(8 * arch.ptrsize) - 1

\* Architecture descriptors of the inferiors the event model debugs
ArchI386 == [name |-> "i386", ptrsize |-> 4]
ArchArm == [name |-> "arm", ptrsize |-> 4]
ArchI8086 == [name |-> "i8086", ptrsize |-> 2]
ArchArmcm == [name |-> "armcm", ptrsize |-> 4]
ArchAarch64 == [name |-> "aarch64", ptrsize |-> 8]
RegArchs == {ArchI386, ArchArm}

\* reg_sets[arch].common: the registers tracked across stops (abridged to
\* one general-purpose register and the program counter)
common(archname) ==
    CASE archname \in {"i386", "i8086"} -> <<"eax", "eip">>
      [] archname \in {"arm", "armcm"} -> <<"r0", "pc">>
      [] OTHER -> <<>>

\* The register the engine understands by $pc on each architecture
PcRegister(archname) ==
    CASE archname \in {"i386", "i8086"} -> "eip"
      [] OTHER -> "pc"

\* The registers an inferior of the architecture has in the event model
EngineRegs(archname) ==
    CASE archname \in {"i386", "i8086"} -> {"eax", "eip"}
      [] OTHER -> {"r0", "pc"}

\* str.lstrip("$"), str.lower() and str.upper() on the names of the model
lstrip_dollar(n) ==
    CASE n = "$eax" -> "eax" [] n = "$eip" -> "eip" [] n = "$pc" -> "pc"
      [] n = "$r0" -> "r0" [] n = "$cs" -> "cs" [] OTHER -> n

lower(n) ==
    CASE n = "EAX" -> "eax" [] n = "EIP" -> "eip" [] n = "PC" -> "pc"
      [] n = "R0" -> "r0" [] n = "CS" -> "cs" [] n = "xPSR" -> "xpsr"
      [] n = "XPSR" -> "xpsr" [] n = "CPSR" -> "cpsr" [] OTHER -> n

upper(n) ==
    CASE n = "eax" -> "EAX" [] n = "eip" -> "EIP" [] n = "pc" -> "PC"
      [] n = "r0" -> "R0" [] n = "cs" -> "CS" [] n = "xpsr" -> "XPSR"
      [] n = "xPSR" -> "XPSR" [] n = "cpsr" -> "CPSR"
      [] n = "fs_base" -> "FS_BASE" [] n = "gs_base" -> "GS_BASE"
      [] OTHER -> n

\* Registers.by_name on the register set of one frame: the engine value
\* (its storage size and contents), or None when there is no such register
by_name(regs, name) ==
    LET n == IF name = "pc" THEN PcRegister(arch.name) ELSE name
    IN IF n \in DOMAIN regs THEN Some(regs[n]) ELSE None

\* A register whose contents the engine cannot fetch is recorded with
\* sizeof 0: converting its value raises the engine's error
Unavailable(value) == value.sizeof = 0

\* int(value.cast(unsigned type of the value's size))
cast_unsigned(value) == Wrap(value.raw, value.sizeof)

\* get_register(name); the test `if value:` is that of a Value handle, which
\* is true of every handle and false of None only
get_register(name) ==
    IF selFrame = 0
    THEN None
    ELSE LET regs == frameRegs[selFrame]
             value == by_name(regs, name)
         IN IF value # None THEN value ELSE by_name(regs, upper(name))

\* ========================================================================
\* Page-boundary search (pwndbg/aglib/memory.py)
\* ========================================================================

\* pwndbg.lib.memory.PAGE_SIZE
PAGE_SIZE == 4096

\* bound of the max_pages argument
MaxPages == 3

\* Page numbers of the address space of the selected architecture
PageIds == 0..(ptrmask \div PAGE_SIZE)

\* pwndbg.lib.memory.page_align(addr): addr & ~(PAGE_SIZE - 1)
page_align(addr) == addr - (addr % PAGE_SIZE)

\* Whether read(addr, 1) succeeds on a target whose readable pages are pg
probe(pg, addr) ==
    addr >= 0 /\ addr <= ptrmask /\ (addr \div PAGE_SIZE) \in pg

\* The state of a search before its first iteration: the address about to
\* be probed, whether the function has returned, and the probes made
search_start(addr) ==
    [addr |-> page_align(addr), done |-> FALSE, probes |-> <<>>]

\* find_lower_boundary whose handler leaves addr at the failed probe
lower_step_no_undo(pg, p) ==
    IF p.done THEN p
    ELSE IF ~probe(pg, p.addr)
    THEN [addr |-> p.addr, done |-> TRUE, probes |-> Append(p.probes, p.addr)]
    ELSE IF p.addr - PAGE_SIZE < 0
    THEN [addr |-> 0, done |-> TRUE, probes |-> Append(p.probes, p.addr)]
    ELSE [addr |-> p.addr - PAGE_SIZE, done |-> FALSE,
          probes |-> Append(p.probes, p.addr)]

\* One iteration of the loop of find_upper_boundary (lines 309-319): a
\* failed read ends the search with addr as it is
upper_step(pg, p) ==
    IF p.done THEN p
    ELSE IF ~probe(pg, p.addr)
    THEN [addr |-> p.addr, done |-> TRUE, probes |-> Append(p.probes, p.addr)]
    ELSE IF p.addr + PAGE_SIZE > ptrmask
    THEN [addr |-> ptrmask, done |-> TRUE, probes |-> Append(p.probes, p.addr)]
    ELSE [addr |-> p.addr + PAGE_SIZE, done |-> FALSE,
          probes |-> Append(p.probes, p.addr)]

\* One iteration of the loop of find_lower_boundary (lines 333-342): a
\* failed read ends the search with addr one page up
lower_step(pg, p) ==
    IF p.done THEN p
    ELSE IF ~probe(pg, p.addr)
    THEN [addr |-> p.addr + PAGE_SIZE, done |-> TRUE,
          probes |-> Append(p.probes, p.addr)]
    ELSE IF p.addr - PAGE_SIZE < 0
    THEN [addr |-> 0, done |-> TRUE, probes |-> Append(p.probes, p.addr)]
    ELSE [addr |-> p.addr - PAGE_SIZE, done |-> FALSE,
          probes |-> Append(p.probes, p.addr)]

\* find_upper_boundary(addr, max_pages): the address returned and the page
\* addresses probed, in order
find_upper_boundary(pg, addr, max_pages) ==
    LET step[i \in 0..max_pages] ==
            IF i = 0 THEN search_start(addr)
            ELSE Bind(step[i - 1], LAMBDA p : upper_step(pg, p))
    IN step[max_pages]

\* find_lower_boundary(addr, max_pages)
find_lower_boundary(pg, addr, max_pages) ==
    LET step[i \in 0..max_pages] ==
            IF i = 0 THEN search_start(addr)
            ELSE Bind(step[i - 1], LAMBDA p : lower_step(pg, p))
    IN step[max_pages]

\* The command that called a helper has consumed its result
HelperReturn ==
    /\ memcall # NoCall
    /\ memcall' = NoCall
    /\ UNCHANGED <<mem, perm, selVars, regVars, auxVars>>

FindUpperBoundary(a, mp) ==
    /\ memcall = NoCall
    /\ \E r \in {find_upper_boundary(pages, a, mp)} :
       /\ memcall' = [op |-> "upper", addr |-> a, max_pages |-> mp,
                      ret |-> r.addr, probes |-> r.probes]
       /\ UNCHANGED <<mem, perm, selVars, regVars, auxVars>>

FindLowerBoundary(a, mp) ==
    /\ memcall = NoCall
    /\ \E r \in {find_lower_boundary(pages, a, mp)} :
       /\ memcall' = [op |-> "lower", addr |-> a, max_pages |-> mp,
                      ret |-> r.addr, probes |-> r.probes]
       /\ UNCHANGED <<mem, perm, selVars, regVars, auxVars>>

\* ========================================================================
\* Typed scalar reads (pwndbg/aglib/memory.py)
\* ========================================================================

\* pwndbg.aglib.typeinfo: the scalar types whose values fit TLC's 32-bit
\* integers (the wider ones take the same path through readtype)
ScalarTypes ==
    {[name |-> "uint8", size |-> 1, signed |-> FALSE],
     [name |-> "int8", size |-> 1, signed |-> TRUE],
     [name |-> "uint16", size |-> 2, signed |-> FALSE],
     [name |-> "int16", size |-> 2, signed |-> TRUE]}

Reverse(q) == [i \in 1..Len(q) |-> q[Len(q) + 1 - i]]

\* The unsigned integer whose base-256 digits, most significant first, are d
be_value(d) ==
    LET f[i \in 0..Len(d)] == IF i = 0 THEN 0 ELSE f[i - 1] * 256 + d[i]
    IN f[Len(d)]

\* int() of an engine value of type ty whose contents are the bytes data, on
\* a target of the given byte order
value_int(data, ty, endian) ==
    LET u == be_value(IF endian = "little" THEN Reverse(data) ELSE data)
    IN IF ty.signed /\ u >= Pow2(8 * ty.size) \div 2
       THEN u - Pow2(8 * ty.size) ELSE u

\* Value.dereference() of create_value(addr).cast(ty.pointer()), fetched:
\* the engine reads ty.size bytes at addr or raises its memory error
value_dereference(m, ty, addr) == read_memory(m, addr, ty.size)

\* get_typed_pointer_value(type, addr) for a Type and an int
get_typed_pointer_value(m, ty, addr) == value_dereference(m, ty, addr)

\* readtype tolerating a short read
readtype_partial(m, ty, addr) ==
    LET v == read_memory_partial(m, addr, ty.size)
    IN IF v.raised
       THEN [raised |-> TRUE, val |-> None]
       ELSE [raised |-> FALSE,
             val |-> Some(value_int(v.data, [ty EXCEPT !.size = Len(v.data)],
                                    arch.endian))]

\* readtype(type, addr): int(get_typed_pointer_value(type, addr)); nothing
\* on the way catches the engine's error
readtype(m, ty, addr) ==
    LET v == get_typed_pointer_value(m, ty, addr)
    IN IF v.raised
       THEN [raised |-> TRUE, val |-> None]
       ELSE [raised |-> FALSE, val |-> Some(value_int(v.data, ty, arch.endian))]

\* u8, u16, s8, s16: readtype(pwndbg.aglib.typeinfo.<type>, addr)
ReadType(ty, a) ==
    \E r \in {readtype(mem, ty, a)} :
       /\ memcall' = [op |-> "readtype", type |-> ty, addr |-> a,
                      raised |-> r.raised, val |-> r.val]
       /\ UNCHANGED <<mem, perm, selVars, regVars, auxVars>>

\* ========================================================================
\* Readability check (pwndbg/aglib/memory.py)
\* ========================================================================

\* `address in page` for a mapping range [start, end)
page_contains(page, address) == page[1] <= address /\ address < page[2]

\* The loop of lines 99-103: whether some enumerated range holds the address
vmmap_found(vm, address) ==
    \E i \in 1..Len(vm) : page_contains(vm[i], address)

\* is_readable_address reading the byte before it consults the mappings
is_readable_address_peek_first(m, vm, address) ==
    LET c == peek(m, address)
    IN [ret |-> c # None /\ vmmap_found(vm, address),
        reads |-> <<ReadReq(address, 1, FALSE)>>]

\* The body of is_readable_address: `and` evaluates peek() only when a range
\* was found
is_readable_address_body(m, vm, address) ==
    IF vmmap_found(vm, address)
    THEN [ret |-> peek(m, address) # None,
          reads |-> <<ReadReq(address, 1, FALSE)>>]
    ELSE [ret |-> FALSE, reads |-> <<>>]

\* is_readable_address(address), memoised until the next stop: the value
\* returned, the reads issued and the table afterwards
is_readable_address(m, vm, address, table) ==
    IF address \in DOMAIN table
    THEN [ret |-> table[address], reads |-> <<>>, table |-> table]
    ELSE Bind(is_readable_address_body(m, vm, address), LAMBDA r :
            [ret |-> r.ret, reads |-> r.reads,
             table |-> table @@ (address :> r.ret)])

IsReadableAddress(a) ==
    \E r \in {is_readable_address(mem, vmmap, a, readableCache)} :
       /\ memcall' = [op |-> "is_readable", addr |-> a, ret |-> r.ret,
                      reads |-> r.reads, hit |-> a \in DOMAIN readableCache]
       /\ readableCache' = r.table
       /\ UNCHANGED <<mem, perm, selVars, regVars, pages, vmmap, expr,
                      extVars>>

\* The engine delivers STOP to the memory helpers: the table is emptied
ReadableStop ==
    /\ readableCache' = cache_clear("stop", {"stop"}, readableCache)
    /\ memcall' = NoCall
    /\ UNCHANGED <<mem, perm, selVars, regVars, pages, vmmap, expr, extVars>>

\* ========================================================================
\* Register facade (pwndbg/aglib/regs.py)
\* ========================================================================

\* Variants whose table survives the prompt, or the stop
getattr_cache_until_stop_only == {"stop"}
getitem_cache_until_prompt_only == {"prompt"}

\* The events named by @cache_until on __getattr__ and on __getitem__
module_getattr_cache_until == {"stop", "prompt"}
module_getitem_cache_until == {"stop", "prompt"}

\* The tail of module.__getattr__ without its try/except: the engine's
\* error leaves the function
module_getattr_tail_unguarded(attr, a, value, ac) ==
    IF value = None
    THEN [val |-> None, raised |-> FALSE, ac |-> ac @@ (attr :> None)]
    ELSE IF Unavailable(value[1])
    THEN [val |-> None, raised |-> TRUE, ac |-> ac]
    ELSE LET int_value == cast_unsigned(value[1])
             v == Some(and_ptrmask(int_value))
         IN [val |-> v, raised |-> FALSE, ac |-> ac @@ (attr :> v)]

\* The tail of module.__getattr__ once the register value is at hand:
\* lines 101-115; an engine error raised by the conversion is caught at
\* line 114 and None is returned (and memoised)
module_getattr_tail(attr, a, value, ac) ==
    IF value = None \/ Unavailable(value[1])
    THEN [val |-> None, raised |-> FALSE, ac |-> ac @@ (attr :> None)]
    ELSE LET int_value == cast_unsigned(value[1])
             v == Some(and_ptrmask(int_value))
         IN [val |-> v, raised |-> FALSE, ac |-> ac @@ (attr :> v)]

\* The i8086 branch adding the segment register as it is, not times 16
module_getattr_tail_i8086_unscaled(attr, value, cs) ==
    IF cs.val = None
    THEN [val |-> None, raised |-> FALSE, ac |-> cs.ac @@ (attr :> None)]
    ELSE LET v == Some(and_ptrmask(cast_unsigned(value[1]) + cs.val[1]))
         IN [val |-> v, raised |-> FALSE, ac |-> cs.ac @@ (attr :> v)]

\* The same tail on the i8086 branch, reached once the conversion has
\* succeeded, cs being the outcome of self.cs
module_getattr_tail_i8086(attr, value, cs) ==
    IF cs.val = None
    THEN [val |-> None, raised |-> FALSE, ac |-> cs.ac @@ (attr :> None)]
    ELSE LET v == Some(and_ptrmask(cast_unsigned(value[1]) + cs.val[1] * 16))
         IN [val |-> v, raised |-> FALSE, ac |-> cs.ac @@ (attr :> v)]

\* The register value __getattr__ works on: lines 98-100
module_getattr_value(a) ==
    LET value0 == get_register(a)
    IN IF value0 = None /\ lower(a) = "xpsr"
       THEN get_register("xPSR") ELSE value0

\* The body of module.__getattr__("cs") on a miss
module_getattr_body_cs(ac) ==
    Bind(module_getattr_value("cs"),
         LAMBDA value : module_getattr_tail("cs", "cs", value, ac))

\* self.cs inside __getattr__: the memoised __getattr__("cs"), whose body
\* never takes the i8086 branch itself
module_getattr_cs(ac) ==
    IF "cs" \in DOMAIN ac
    THEN [val |-> ac["cs"], raised |-> FALSE, ac |-> ac]
    ELSE module_getattr_body_cs(ac)

\* The body of module.__getattr__(attr) on a miss, given the table ac: the
\* value returned and the table afterwards
module_getattr_body(attr, ac) ==
    Bind(module_getattr_value(lstrip_dollar(attr)),
         LAMBDA value :
            IF value # None /\ ~Unavailable(value[1])
                            /\ lstrip_dollar(attr) = "pc"
                            /\ arch.name = "i8086"
            THEN Bind(module_getattr_cs(ac),
                      LAMBDA cs : module_getattr_tail_i8086(attr, value, cs))
            ELSE module_getattr_tail(attr, lstrip_dollar(attr), value, ac))

\* module.__getattr__(attr) given the memoisation table ac: the value
\* returned and the table afterwards
module_getattr(attr, ac) ==
    IF attr \in DOMAIN ac
    THEN [val |-> ac[attr], raised |-> FALSE, ac |-> ac]
    ELSE module_getattr_body(attr, ac)

\* Lines 133-136 of module.__getitem__: g is the outcome of getattr()
module_getitem_tail(item, g, ic) ==
    LET v == IF g.val # None THEN Some(and_ptrmask(g.val[1])) ELSE None
    IN IF g.raised
       THEN [val |-> None, raised |-> TRUE, ac |-> g.ac, ic |-> ic]
       ELSE [val |-> v, raised |-> FALSE, ac |-> g.ac,
             ic |-> ic @@ (item :> v)]

\* module.__getitem__(item) for a str item, given both memoisation tables
module_getitem(item, ac, ic) ==
    IF item \in DOMAIN ic
    THEN [val |-> ic[item], raised |-> FALSE, ac |-> ac, ic |-> ic]
    ELSE Bind(module_getattr(lower(lstrip_dollar(item)), ac),
              LAMBDA g : module_getitem_tail(item, g, ic))

\* module.__setattr__(attr, val) for a register name: the register sets of
\* the frames after selected_frame().reg_write(attr, int(val))
module_setattr(attr, val) ==
    LET n == IF attr = "pc" THEN PcRegister(arch.name) ELSE attr
    IN [frameRegs EXCEPT ![selFrame][n].raw = val]

\* One iteration of {k: M[k] for k in names}: p is the dict and the tables
\* so far, r the outcome of M[k]
snapshot_step(k, p, r) ==
    [dict |-> Append(p.dict, <<k, r.val>>), ac |-> r.ac, ic |-> r.ic]

\* {k: M[k] for k in names}: the dict and both tables afterwards
snapshot(names, ac, ic) ==
    LET step[i \in 0..Len(names)] ==
            IF i = 0
            THEN [dict |-> <<>>, ac |-> ac, ic |-> ic]
            ELSE Bind(step[i - 1], LAMBDA p :
                   Bind(module_getitem(names[i], p.ac, p.ic), LAMBDA r :
                     snapshot_step(names[i], p, r)))
    IN step[Len(names)]

\* update_last run twice for one event
update_last_twice(prev, lst, ac, ic) ==
    Bind(snapshot(common(arch.name), ac, ic), LAMBDA s :
        [previous |-> s.dict, last |-> s.dict, ac |-> s.ac, ic |-> s.ic])

\* update_last keeping the keys of the older generation (dict.update)
update_last_merge(prev, lst, ac, ic) ==
    Bind(snapshot(common(arch.name), ac, ic), LAMBDA s :
        [previous |-> lst,
         last |-> SelectSeq(lst, LAMBDA p :
                     \A i \in 1..Len(s.dict) : s.dict[i][1] # p[1])
                  \o s.dict,
         ac |-> s.ac, ic |-> s.ic])

\* update_last(): M.previous = M.last; M.last = {k: M[k] for k in M.common}
update_last(prev, lst, ac, ic) ==
    Bind(snapshot(common(arch.name), ac, ic), LAMBDA s :
        [previous |-> lst, last |-> s.dict, ac |-> s.ac, ic |-> s.ic])

\* The event types update_last is registered for by its two decorators
update_last_stop_only == {"STOP"}

update_last_event_types == {"CONTINUE", "STOP"}

\* Delivery of an event to update_last: the handler runs once if it is
\* registered for the event type
deliver(event, prev, lst, ac, ic) ==
    IF event \in update_last_event_types
    THEN update_last(prev, lst, ac, ic)
    ELSE [previous |-> prev, last |-> lst, ac |-> ac, ic |-> ic]

\* One iteration of module.changed comparing with == instead of !=
module_changed_step_eq(entry, p, r) ==
    [val |-> IF r.val = entry[2] THEN Append(p.val, entry[1]) ELSE p.val,
     ac |-> r.ac, ic |-> r.ic]

\* One iteration of module.changed: entry is a (reg, value) item of
\* `previous`, p the delta and the tables so far, r the outcome of self[reg]
module_changed_step(entry, p, r) ==
    [val |-> IF r.val # entry[2] THEN Append(p.val, entry[1]) ELSE p.val,
     ac |-> r.ac, ic |-> r.ic]

\* module.changed: the names in `previous` whose current facade value
\* differs from the recorded one, and both tables afterwards
module_changed(prev, ac, ic) ==
    LET step[i \in 0..Len(prev)] ==
            IF i = 0
            THEN [val |-> <<>>, ac |-> ac, ic |-> ic]
            ELSE Bind(step[i - 1], LAMBDA p :
                   Bind(module_getitem(prev[i][1], p.ac, p.ic), LAMBDA r :
                     module_changed_step(prev[i], p, r)))
    IN step[Len(prev)]

\* ------------------------------------------------------------------------
\* Register enumeration and expression rewriting
\* ------------------------------------------------------------------------

\* reg_sets[arch]: the register set of an architecture, abridged.  frame is
\* an optional name, flags a dict (its values are left out), the others
\* tuples of names
RegisterSetOf(archname) ==
    CASE archname \in {"i386", "i8086"} ->
             [pc |-> "eip", stack |-> "esp", frame |-> Some("ebp"),
              retaddr |-> <<>>, flags |-> <<<<"eflags", 0>>>>,
              gpr |-> <<"eax">>, misc |-> <<"cs">>]
      [] OTHER ->
             [pc |-> "pc", stack |-> "sp", frame |-> None,
              retaddr |-> <<"lr">>, flags |-> <<>>,
              gpr |-> <<>>, misc |-> <<>>]

\* module.all keeping only the first occurrence of each name
module_all_first_occurrences(regs) ==
    LET whole == <<regs.pc>> \o <<regs.stack>> \o regs.frame \o regs.retaddr
                     \o Keys(regs.flags) \o regs.gpr \o regs.misc
        kept[i \in 0..Len(whole)] ==
            IF i = 0 THEN <<>>
            ELSE IF \E j \in 1..(i - 1) : whole[j] = whole[i]
                 THEN kept[i - 1]
                 ELSE Append(kept[i - 1], whole[i])
    IN kept[Len(whole)]

\* module.all: the groups in the order of lines 187-195; a str is appended,
\* a tuple extends the list, a dict extends it by its keys, None is skipped
module_all(regs) ==
    <<regs.pc>> \o <<regs.stack>> \o regs.frame \o regs.retaddr
        \o Keys(regs.flags) \o regs.gpr \o regs.misc

\* The characters of the expressions of the model: three letters, the
\* dollar sign and an operator sign
WordChars == {"p", "c", "s"}
ExprChars == WordChars \cup {"$", "+"}

\* A register name as the sequence of its characters
Chars(name) ==
    CASE name = "pc" -> <<"p", "c">>
      [] name = "sp" -> <<"s", "p">>
      [] name = "lr" -> <<"l", "r">>
      [] name = "eip" -> <<"e", "i", "p">>
      [] name = "esp" -> <<"e", "s", "p">>
      [] name = "ebp" -> <<"e", "b", "p">>
      [] name = "eax" -> <<"e", "a", "x">>
      [] name = "cs" -> <<"c", "s">>
      [] name = "eflags" -> <<"e", "f", "l", "a", "g", "s">>

\* Whether position i of t holds a word character (\w)
IsWordAt(t, i) == i \in 1..Len(t) /\ t[i] \in WordChars

\* \b between positions i - 1 and i of t
WordBoundary(t, i) == IsWordAt(t, i - 1) # IsWordAt(t, i)

\* Whether the characters nm stand in t from position i on
StandsAt(nm, t, i) ==
    /\ i + Len(nm) - 1 <= Len(t)
    /\ \A k \in 1..Len(nm) : t[i + k - 1] = nm[k]

\* The pattern without its two \b
pattern_length_unanchored(nm, t, i) ==
    IF t[i] = "$" /\ StandsAt(nm, t, i + 1) THEN 1 + Len(nm)
    ELSE IF StandsAt(nm, t, i) THEN Len(nm)
    ELSE 0

\* The pattern without its optional dollar sign
pattern_length_dollar_untaken(nm, t, i) ==
    IF /\ WordBoundary(t, i)
       /\ StandsAt(nm, t, i)
       /\ WordBoundary(t, i + Len(nm))
    THEN Len(nm)
    ELSE 0

\* The length of the match of \$?\b<nm>\b starting at position i of t, 0
\* when there is none: the dollar sign is taken when it is there
pattern_length(nm, t, i) ==
    IF /\ t[i] = "$"
       /\ WordBoundary(t, i + 1)
       /\ StandsAt(nm, t, i + 1)
       /\ WordBoundary(t, i + 1 + Len(nm))
    THEN 1 + Len(nm)
    ELSE IF /\ WordBoundary(t, i)
            /\ StandsAt(nm, t, i)
            /\ WordBoundary(t, i + Len(nm))
    THEN Len(nm)
    ELSE 0

\* re.sub(rf"\$?\b{regname}\b", "$" + regname, t): the leftmost matches,
\* none overlapping another, are replaced
re_sub(nm, t) ==
    LET from[i \in 1..(Len(t) + 1)] ==
            IF i > Len(t) THEN <<>>
            ELSE Bind(pattern_length(nm, t, i), LAMBDA n :
                    IF n > 0 THEN <<"$">> \o nm \o from[i + n]
                    ELSE <<t[i]>> \o from[i + 1])
    IN from[1]

\* set(self.all + ["sp", "pc"])
fix_names(regs) == SeqRange(module_all(regs)) \cup {"sp", "pc"}

\* The orders in which a set may be iterated
Orders(S) ==
    {q \in [1..Cardinality(S) -> S] :
        \A i, j \in 1..Cardinality(S) : q[i] = q[j] => i = j}

\* module.fix(expression), the set being iterated in the order `order`
fix(expression, order) ==
    LET after[k \in 0..Len(order)] ==
            IF k = 0 THEN expression
            ELSE Bind(after[k - 1], LAMBDA t : re_sub(Chars(order[k]), t))
    IN after[Len(order)]

\* ------------------------------------------------------------------------
\* Segment bases (pwndbg/aglib/regs.py: fsbase, gsbase, _fs_gs_helper)
\* ------------------------------------------------------------------------

\* The arch_prctl codes handed to ptrace
ARCH_GET_FS == 4099
ARCH_GET_GS == 4100

ArchX8664 == [name |-> "x86-64", ptrsize |-> 8]

\* What libc.ptrace(PTRACE_ARCH_PRCTL, lwpid, value, which) may leave
\* behind: its result and the c_void_p it filled, whose .value is None for
\* a null pointer
PtraceOutcomes ==
    {[result |-> 0, value |-> None], [result |-> 0, value |-> Some(5)],
     [result |-> -1, value |-> None]}

\* The body of _fs_gs_helper(regname, which), lines 262-287: the value
\* returned, whether an exception left the function, and the ptrace calls
\* issued; out is what the ptrace call would leave behind
fs_gs_helper_body(regname, which, out) ==
    IF arch.name = "x86-64"
    THEN LET reg_value == get_register(regname)
         IN IF reg_value = None
            THEN [ret |-> 0, raised |-> FALSE, ptrace |-> <<>>]
            ELSE IF Unavailable(reg_value[1])
            THEN [ret |-> 0, raised |-> TRUE, ptrace |-> <<>>]
            ELSE [ret |-> reg_value[1].raw, raised |-> FALSE, ptrace |-> <<>>]
    ELSE IF remote
    THEN [ret |-> 0, raised |-> FALSE, ptrace |-> <<>>]
    ELSE IF selThread = 0
    THEN \* selected_thread() is None: .ptid() raises AttributeError
         [ret |-> 0, raised |-> TRUE, ptrace |-> <<>>]
    ELSE IF ptids[selThread] = None
    THEN [ret |-> 0, raised |-> FALSE, ptrace |-> <<>>]
    ELSE [ret |-> IF out.result = 0
                  THEN and_ptrmask(IF out.value = None THEN 0
                                   ELSE out.value[1])
                  ELSE 0,
          raised |-> FALSE,
          ptrace |-> <<[lwpid |-> ptids[selThread][1], which |-> which]>>]

\* _fs_gs_helper(regname, which), memoised until the next stop under its
\* arguments; a call that raises stores nothing
fs_gs_helper(regname, which, out, table) ==
    IF regname \in DOMAIN table
    THEN [ret |-> table[regname], raised |-> FALSE, ptrace |-> <<>>,
          table |-> table]
    ELSE Bind(fs_gs_helper_body(regname, which, out), LAMBDA r :
            [ret |-> r.ret, raised |-> r.raised, ptrace |-> r.ptrace,
             table |-> IF r.raised THEN table
                       ELSE table @@ (regname :> r.ret)])

\* The property named prop (fsbase or gsbase), itself memoised until the
\* next stop: lines 248-256
module_segment_base(prop, regname, which, out, table) ==
    IF prop \in DOMAIN table
    THEN [ret |-> table[prop], raised |-> FALSE, ptrace |-> <<>>,
          table |-> table]
    ELSE Bind(fs_gs_helper(regname, which, out, table), LAMBDA r :
            [ret |-> r.ret, raised |-> r.raised, ptrace |-> r.ptrace,
             table |-> IF r.raised THEN r.table
                       ELSE r.table @@ (prop :> r.ret)])

module_fsbase(out, table) ==
    module_segment_base("fsbase", "fs_base", ARCH_GET_FS, out, table)

module_gsbase(out, table) ==
    module_segment_base("gsbase", "gs_base", ARCH_GET_GS, out, table)

\* A command reads regs.fsbase
Fsbase(out) ==
    /\ ~running
    /\ \E r \in {module_fsbase(out, segCache)} :
       /\ segCache' = r.table
       /\ regcall' = [op |-> "fsbase", regname |-> "fs_base", ret |-> r.ret,
                      raised |-> r.raised, ptrace |-> r.ptrace,
                      hit |-> "fsbase" \in DOMAIN segCache]
       /\ UNCHANGED <<remote, ptids, regset, typeInner, attrCache, itemCache,
                      last, previous, running, served, quiet, scen, arch,
                      frameRegs, selVars, memVars, pages, vmmap, expr,
                      readableCache, brVars>>

\* A command reads regs.gsbase
Gsbase(out) ==
    /\ ~running
    /\ \E r \in {module_gsbase(out, segCache)} :
       /\ segCache' = r.table
       /\ regcall' = [op |-> "gsbase", regname |-> "gs_base", ret |-> r.ret,
                      raised |-> r.raised, ptrace |-> r.ptrace,
                      hit |-> "gsbase" \in DOMAIN segCache]
       /\ UNCHANGED <<remote, ptids, regset, typeInner, attrCache, itemCache,
                      last, previous, running, served, quiet, scen, arch,
                      frameRegs, selVars, memVars, pages, vmmap, expr,
                      readableCache, brVars>>

\* The engine delivers STOP to the segment-base tables: they are emptied
SegStop ==
    /\ segCache' = cache_clear("stop", {"stop"}, segCache)
    /\ regcall' = [op |-> "stop"]
    /\ UNCHANGED <<remote, ptids, regset, typeInner, attrCache, itemCache,
                   last, previous, running, served, quiet, scen, arch,
                   frameRegs, selVars, memVars, pages, vmmap, expr,
                   readableCache, brVars>>

\* The user selects thread t while the inferior is stopped: the engine
\* selects the thread and its innermost frame, which carries the number of
\* the thread; no event is delivered
ThreadCommand(t) ==
    /\ ~running
    /\ t # selThread
    /\ selThread' = t
    /\ selFrame' = t
    /\ regcall' = [op |-> "thread"]
    /\ UNCHANGED <<call, attrCache, itemCache, last, previous, running,
                   served, quiet, scen, arch, frameRegs, memVars, auxVars>>

\* ------------------------------------------------------------------------
\* Conditional-branch breakpoints (pwndbg/commands/branch.py)
\* ------------------------------------------------------------------------

\* The program of the inferior: a conditional jump, an unconditional jump,
\* an instruction that is no branch, and bytes that do not decode
BranchAddrs == 0..3

InstructionKind(address) ==
    CASE address = 0 -> "jcc"
      [] address = 1 -> "jmp"
      [] address = 2 -> "other"
      [] OTHER -> "undecodable"

\* pwndbg.disasm.one(address): the decoded instruction, or None
disasm_one(address) ==
    IF InstructionKind(address) = "undecodable" THEN None
    ELSE Some([address |-> address, kind |-> InstructionKind(address)])

\* CS_GRP_JUMP in instruction.groups
in_jump_group(instruction) == instruction.kind \in {"jcc", "jmp"}

\* DisassemblyAssistant.for_current_arch() is not None
assistant_for_current_arch == arch.name \in {"i386", "x86-64", "arm", "aarch64"}

\* assistant.condition(instruction): None for an instruction without a
\* condition, else the value the condition has with the current flags
assistant_condition(instruction, cond) ==
    IF instruction.kind = "jcc" THEN Some(cond) ELSE None

\* BreakOnConditionalBranch.stop reading an absent condition as 0
BreakOnConditionalBranch_stop_absent_as_zero(self, cond) ==
    LET condition_met0 == assistant_condition(self.instruction, cond)
        condition_met1 == IF condition_met0 = None THEN 0
                          ELSE condition_met0[1]
        condition_met == condition_met1 # 0
    IN condition_met = self.taken

\* BreakOnConditionalBranch.stop: lines 21-33
BreakOnConditionalBranch_stop(self, cond) ==
    LET condition_met0 == assistant_condition(self.instruction, cond)
        condition_met1 == IF condition_met0 = None THEN 1
                          ELSE condition_met0[1]
        condition_met == condition_met1 # 0
    IN condition_met = self.taken

\* install_breakpoint(branch, taken), lines 60-101, address being what the
\* location resolved to, None when it could not be resolved: the
\* breakpoints afterwards
install_breakpoint(address, taken) ==
    IF address = None THEN bps
    ELSE LET instruction == disasm_one(address[1])
         IN IF instruction = None THEN bps
            ELSE IF ~in_jump_group(instruction[1]) THEN bps
            ELSE IF ~assistant_for_current_arch THEN bps
            ELSE bps \cup {[instruction |-> instruction[1], taken |-> taken]}

\* The commands break-if-taken and break-if-not-taken
InstallBreakpoint(address, taken) ==
    /\ ~running
    /\ bps' = install_breakpoint(address, taken)
    /\ brcall' = [op |-> "install"]
    /\ UNCHANGED <<branchCond, regset, typeInner, segVars, attrCache,
                   itemCache, last, previous, running, regcall, served, quiet,
                   scen, arch, frameRegs, selVars, memVars, pages, vmmap,
                   expr, readableCache>>

\* The running inferior reaches address a: the engine asks stop() of every
\* breakpoint set there and halts the inferior when one of them says so
Hit(a) ==
    LET here == {b \in bps : b.instruction.address = a}
        rets == [b \in here |-> BreakOnConditionalBranch_stop(b, branchCond)]
    IN /\ running
       /\ here # {}
       /\ brcall' = [op |-> "hit", address |-> a, cond |-> branchCond,
                     rets |-> rets]
       /\ running' = ~(\E b \in here : rets[b])
       /\ UNCHANGED <<bps, branchCond, regset, typeInner, segVars, attrCache,
                      itemCache, last, previous, regcall, served, quiet, scen,
                      arch, frameRegs, selVars, memVars, pages, vmmap, expr,
                      readableCache>>

\* The inferior is resumed
Resume ==
    /\ ~running
    /\ running' = TRUE
    /\ brcall' = [op |-> "cont"]
    /\ UNCHANGED <<bps, branchCond, regset, typeInner, segVars, attrCache,
                   itemCache, last, previous, regcall, served, quiet, scen,
                   arch, frameRegs, selVars, memVars, pages, vmmap, expr,
                   readableCache>>

\* The running inferior changes its flags: the condition becomes c
ExecFlags(c) ==
    /\ running
    /\ c # branchCond
    /\ branchCond' = c
    /\ brcall' = [op |-> "exec"]
    /\ UNCHANGED <<bps, regset, typeInner, segVars, attrCache, itemCache,
                   last, previous, running, regcall, served, quiet, scen,
                   arch, frameRegs, selVars, memVars, pages, vmmap, expr,
                   readableCache>>

\* ------------------------------------------------------------------------
\* Thumb bit (pwndbg/aglib/arch.py)
\* ------------------------------------------------------------------------

\* (v >> n) & 1 for the two bit positions read_thumb_bit looks at
bit(v, n) == (v \div (IF n = 5 THEN 32 ELSE Pow2(n))) % 2

\* The outcome of read_thumb_bit given that of the facade read g
thumb_of(g, n) ==
    [val |-> IF g.val # None THEN Some(bit(g.val[1], n)) ELSE None,
     ac |-> g.ac]

\* read_thumb_bit taking 64-bit ARM for a member of the "arm" family
read_thumb_bit_arm_family(ac) ==
    IF arch.name \in {"arm", "aarch64"}
    THEN Bind(module_getattr("cpsr", ac), LAMBDA g : thumb_of(g, 5))
    ELSE IF arch.name = "armcm"
    THEN Bind(module_getattr("xpsr", ac), LAMBDA g : thumb_of(g, 24))
    ELSE [val |-> None, ac |-> ac]

\* read_thumb_bit(): the bit or None, and the facade's table afterwards
read_thumb_bit(ac) ==
    IF arch.name = "arm"
    THEN Bind(module_getattr("cpsr", ac), LAMBDA g : thumb_of(g, 5))
    ELSE IF arch.name = "armcm"
    THEN Bind(module_getattr("xpsr", ac), LAMBDA g : thumb_of(g, 24))
    ELSE [val |-> None, ac |-> ac]

\* ------------------------------------------------------------------------
\* History kept beside the program state
\* ------------------------------------------------------------------------

\* v reduced modulo 2^(8*bytes) where TLC's integers can hold it
Unsigned(v, bytes) == IF bytes < 4 THEN v % Pow2(8 * bytes) ELSE v

\* The value of register n in frame f as the specification defines it: the
\* engine contents as an unsigned integer masked to pointer width, None when
\* there is no frame, no such register, or no value to fetch
NormalValue(f, n) ==
    IF f = 0 THEN None
    ELSE LET regs == frameRegs[f]
             pn == IF n = "pc" THEN PcRegister(arch.name) ELSE n
             en == IF pn \in DOMAIN regs THEN pn ELSE upper(pn)
         IN IF en \notin DOMAIN regs \/ regs[en].sizeof = 0
            THEN None
            ELSE Some(Unsigned(Unsigned(regs[en].raw, regs[en].sizeof),
                               arch.ptrsize))

EngineValue(n) == NormalValue(selFrame, n)

DictGet(d, k) ==
    IF \E i \in 1..Len(d) : d[i][1] = k
    THEN Some((CHOOSE p \in {d[i] : i \in 1..Len(d)} : p[1] = k)[2])
    ELSE None

NoScen == [phase |-> "none", reg |-> "", pre |-> None, post |-> None,
           stale |-> FALSE]

\* served, extended with the first value returned for each name of `names`
\* that had not been read since the last stop/prompt event
Serve(sv, names, ic) ==
    [n \in DOMAIN sv \cup names |->
        IF n \in DOMAIN sv THEN sv[n]
        ELSE [val |-> IF n \in DOMAIN ic THEN ic[n] ELSE EngineValue(n),
              frame |-> selFrame]]


\* ------------------------------------------------------------------------
\* Events and facade operations
\* ------------------------------------------------------------------------

\* The engine delivers STOP: the tables naming "stop" are emptied, then the
\* handler update_last runs
Stop ==
    LET ac0 == cache_clear("stop", module_getattr_cache_until, attrCache)
        ic0 == cache_clear("stop", module_getitem_cache_until, itemCache)
    IN \E u \in {deliver("STOP", previous, last, ac0, ic0)} :
       /\ attrCache' = u.ac
       /\ itemCache' = u.ic
       /\ previous' = u.previous
       /\ last' = u.last
       /\ running' = FALSE
       /\ regcall' = [op |-> "stop",
                      stale |-> \E n \in DOMAIN served :
                                    /\ n \in SeqRange(common(arch.name))
                                    /\ served[n].val # EngineValue(n)]
       /\ served' = Serve(EmptyDict, SeqRange(common(arch.name)), u.ic)
       /\ quiet' = IF quiet < 2 THEN quiet + 1 ELSE 2
       /\ scen' = IF scen.phase = "wc"
                  THEN [scen EXCEPT !.phase = "wcs"]
                  ELSE [NoScen EXCEPT !.phase = "s"]
       /\ UNCHANGED <<arch, frameRegs, selVars, memVars, auxVars>>

\* The engine delivers CONTINUE: no table names it; update_last runs
Continue ==
    LET ac0 == cache_clear("cont", module_getattr_cache_until, attrCache)
        ic0 == cache_clear("cont", module_getitem_cache_until, itemCache)
    IN \E u \in {deliver("CONTINUE", previous, last, ac0, ic0)} :
       /\ ~running
       /\ attrCache' = u.ac
       /\ itemCache' = u.ic
       /\ previous' = u.previous
       /\ last' = u.last
       /\ running' = TRUE
       /\ regcall' = [op |-> "cont"]
       /\ served' = Serve(served, SeqRange(common(arch.name)), u.ic)
       /\ quiet' = quiet
       /\ scen' = IF scen.phase = "w"
                  THEN [scen EXCEPT !.phase = "wc",
                                    !.stale = /\ scen.reg \in DOMAIN served
                                              /\ served[scen.reg].val = scen.pre]
                  ELSE NoScen
       /\ UNCHANGED <<arch, frameRegs, selVars, memVars, auxVars>>

\* The engine is about to show its prompt: the tables naming "prompt" are
\* emptied
Prompt ==
    /\ ~running
    /\ attrCache' = cache_clear("prompt", module_getattr_cache_until, attrCache)
    /\ itemCache' = cache_clear("prompt", module_getitem_cache_until, itemCache)
    /\ regcall' = [op |-> "prompt"]
    /\ served' = EmptyDict
    /\ UNCHANGED <<last, previous, running, quiet, scen, arch, frameRegs,
                   selVars, memVars, auxVars>>

\* A command reads regs[n]
ReadItem(n) ==
    \E r \in {module_getitem(n, attrCache, itemCache)} :
       /\ ~running
       /\ attrCache' = r.ac
       /\ itemCache' = r.ic
       /\ regcall' = [op |-> "getitem", name |-> n, val |-> r.val,
                      raised |-> r.raised]
       /\ served' = IF n \in DOMAIN served THEN served
                    ELSE served @@ (n :> [val |-> r.val, frame |-> selFrame])
       /\ UNCHANGED <<last, previous, running, quiet, scen, arch, frameRegs,
                      selVars, memVars, auxVars>>

\* A command reads regs.n
ReadAttr(n) ==
    \E r \in {module_getattr(n, attrCache)} :
       /\ ~running
       /\ attrCache' = r.ac
       /\ regcall' = [op |-> "getattr", name |-> n, val |-> r.val,
                      raised |-> r.raised]
       /\ served' = IF n \in DOMAIN served THEN served
                    ELSE served @@ (n :> [val |-> r.val, frame |-> selFrame])
       /\ UNCHANGED <<itemCache, last, previous, running, quiet, scen, arch,
                      frameRegs, selVars, memVars, auxVars>>

\* A command calls pwndbg.aglib.arch.read_thumb_bit()
ReadThumbBit ==
    \E r \in {read_thumb_bit(attrCache)} :
       /\ ~running
       /\ attrCache' = r.ac
       /\ regcall' = [op |-> "thumb", val |-> r.val]
       /\ served' = [n \in DOMAIN served \cup (DOMAIN r.ac \ DOMAIN attrCache)
                       |-> IF n \in DOMAIN served THEN served[n]
                           ELSE [val |-> r.ac[n], frame |-> selFrame]]
       /\ UNCHANGED <<itemCache, last, previous, running, quiet, scen, arch,
                      frameRegs, selVars, memVars, auxVars>>

\* A command rewrites the expression it was given with regs.fix, or
\* rewrites once more what fix has returned
Fix(order) ==
    /\ regcall = NoCall \/ (regcall.op = "fix" /\ ~regcall.again)
    /\ expr' = fix(expr, order)
    /\ regcall' = [op |-> "fix", arg |-> expr, again |-> regcall.op = "fix"]
    /\ UNCHANGED <<attrCache, itemCache, last, previous, running, served,
                   quiet, scen, arch, frameRegs, selVars, memVars, pages,
                   vmmap, readableCache, extVars>>

\* A command reads regs.all
All ==
    /\ regcall = NoCall
    /\ regcall' = [op |-> "all", ret |-> module_all(regset)]
    /\ UNCHANGED <<attrCache, itemCache, last, previous, running, served,
                   quiet, scen, arch, frameRegs, selVars, memVars, auxVars>>

\* A command evaluates regs.changed
EvalChanged ==
    \E r \in {module_changed(previous, attrCache, itemCache)} :
       /\ ~running
       /\ attrCache' = r.ac
       /\ itemCache' = r.ic
       /\ regcall' = [op |-> "changed", val |-> r.val]
       /\ served' = Serve(served, SeqRange(Keys(previous)), r.ic)
       /\ UNCHANGED <<last, previous, running, quiet, scen, arch, frameRegs,
                      selVars, memVars, auxVars>>

\* A command assigns regs.n = v
WriteReg(n, v) ==
    LET old == EngineValue(n)
        chg == old # Some(v)
    IN /\ ~running
       /\ frameRegs' = module_setattr(n, v)
       /\ regcall' = [op |-> "setattr", name |-> n, val |-> v,
                      read |-> n \in DOMAIN served]
       /\ quiet' = IF chg THEN 0 ELSE quiet
       /\ scen' = IF ~chg THEN scen
                  ELSE IF scen.phase \in {"s", "wcs"}
                       THEN [phase |-> "w", reg |-> n, pre |-> old,
                             post |-> Some(v), stale |-> FALSE]
                       ELSE NoScen
       /\ UNCHANGED <<attrCache, itemCache, last, previous, running, served,
                      arch, selVars, memVars, auxVars>>

\* The running inferior changes a register of its newest frame
Exec(n, v) ==
    LET chg == frameRegs[selFrame][n].raw # v
    IN /\ running
       /\ frameRegs' = [frameRegs EXCEPT ![selFrame][n].raw = v]
       /\ regcall' = [op |-> "exec"]
       /\ quiet' = IF chg THEN 0 ELSE quiet
       /\ scen' = IF chg THEN NoScen ELSE scen
       /\ UNCHANGED <<attrCache, itemCache, last, previous, running, served,
                      arch, selVars, memVars, auxVars>>

\* A frame is selected while the inferior is stopped, within a command
FrameCommand(f) ==
    LET chg == frameRegs[f] # frameRegs[selFrame]
    IN /\ ~running
       /\ f # selFrame
       /\ selFrame' = f
       /\ regcall' = [op |-> "select"]
       /\ quiet' = IF chg THEN 0 ELSE quiet
       /\ scen' = IF chg THEN NoScen ELSE scen
       /\ UNCHANGED <<attrCache, itemCache, last, previous, running, served,
                      arch, frameRegs, selThread, call, memVars, auxVars>>

\* Another inferior, of architecture a, becomes the selected one
SwitchInferior(a) ==
    /\ ~running
    /\ a # arch
    /\ arch' = a
    /\ frameRegs' = [f \in RegFrameIds |->
                       [n \in EngineRegs(a.name) |-> [sizeof |-> 4, raw |-> 0]]]
    /\ regcall' = [op |-> "inferior"]
    /\ quiet' = 0
    /\ scen' = NoScen
    /\ UNCHANGED <<attrCache, itemCache, last, previous, running, served,
                   selVars, memVars, auxVars>>

\* ========================================================================
\* Specifications
\* ========================================================================

IdleSel == selFrame = 1 /\ selThread = 1 /\ call = NoCall
IdleMem == mem = [a \in Addrs |-> 0] /\ perm = [a \in Addrs |-> "none"]
           /\ memcall = NoCall
IdleSeg ==
    /\ remote = FALSE
    /\ ptids = [t \in ThreadIds |-> Some(t)]
    /\ segCache = EmptyDict
IdleBranch ==
    /\ bps = {} /\ branchCond = 0 /\ brcall = NoCall
IdleExt ==
    /\ regset = RegisterSetOf(arch.name)
    /\ typeInner = <<"TYPE_CODE_INT">>
    /\ IdleSeg
    /\ IdleBranch
    /\ IdleBranch
IdleAux ==
    /\ pages = <<>> /\ vmmap = <<>> /\ expr = <<>>
    /\ readableCache = EmptyDict
    /\ IdleExt
IdleFacade ==
    /\ attrCache = EmptyDict /\ itemCache = EmptyDict
    /\ last = <<>> /\ previous = <<>>
    /\ regcall = NoCall /\ served = EmptyDict /\ quiet = 0 /\ scen = NoScen
IdleRegs ==
    /\ arch = ArchI386 /\ running = FALSE
    /\ frameRegs = [f \in RegFrameIds |->
                      [n \in EngineRegs("i386") |-> [sizeof |-> 4, raw |-> 0]]]
    /\ IdleFacade

\* --- selection: the adapter's scoped operations -------------------------
InitSel ==
    /\ selFrame \in FrameIds
    /\ selThread \in ThreadIds
    /\ call = NoCall
    /\ IdleMem
    /\ IdleRegs
    /\ IdleAux

NextSel ==
    \/ \E f \in FrameIds : SelectFrame(f)
    \/ \E t \in ThreadIds : SelectThread(t)
    \/ \E f \in FrameIds, o \in EngineOutcomes : EvaluateExpression(f, o)
    \/ \E t \in ThreadIds, o \in EngineOutcomes : BottomFrame(t, o)

SpecSel == InitSel /\ [][NextSel]_vars

\* --- memory: the helpers applied to every small memory ------------------
InitMem ==
    /\ mem \in [Addrs -> SampleBytes]
    /\ perm \in [Addrs -> Perms]
    /\ memcall = NoCall
    /\ IdleSel
    /\ IdleRegs
    /\ IdleAux

NextMem ==
    \/ \E a \in Addrs : Poke(a)

SpecMem == InitMem /\ [][NextMem]_vars

\* --- strings: string() applied to every small memory --------------------
StringBytes == {0, 65, 255}

InitString ==
    /\ mem \in [Addrs -> StringBytes]
    /\ perm \in [Addrs -> Perms]
    /\ memcall = NoCall
    /\ IdleSel
    /\ IdleRegs
    /\ IdleAux

NextString ==
    \/ \E a \in Addrs, mx \in 1..MaxStr : String(a, mx)

SpecString == InitString /\ [][NextString]_vars

\* --- boundaries: the page searches on a 16-bit target with one mapping ---
\* start addresses: the first byte of each page and one byte inside it
BoundaryStarts ==
    {pn * PAGE_SIZE + off : pn \in PageIds, off \in {0, 1}}

InitBoundary ==
    /\ arch = ArchI8086
    /\ running = FALSE
    /\ frameRegs = [f \in RegFrameIds |->
                      [n \in EngineRegs("i8086") |-> [sizeof |-> 4, raw |-> 0]]]
    /\ IdleFacade
    /\ IdleSel
    /\ IdleMem
    /\ \E lo \in PageIds, hi \in PageIds : pages = lo..hi
    /\ vmmap = <<>>
    /\ expr = <<>>
    /\ readableCache = EmptyDict
    /\ IdleExt

NextBoundary ==
    \/ \E a \in BoundaryStarts, mp \in 1..MaxPages : FindUpperBoundary(a, mp)
    \/ \E a \in BoundaryStarts, mp \in 1..MaxPages : FindLowerBoundary(a, mp)
    \/ HelperReturn

SpecBoundary == InitBoundary /\ [][NextBoundary]_vars

\* --- typed reads: every scalar type at every address, both byte orders ---
TypedBytes == {1, 128, 255}
TypedArchs ==
    {[name |-> "i386", ptrsize |-> 4, endian |-> "little"],
     [name |-> "powerpc", ptrsize |-> 4, endian |-> "big"]}

InitTyped ==
    /\ mem \in [Addrs -> TypedBytes]
    /\ perm \in [Addrs -> {"none", "r"}]
    /\ memcall = NoCall
    /\ arch \in TypedArchs
    /\ running = FALSE
    /\ frameRegs = [f \in RegFrameIds |->
                      [n \in EngineRegs(arch.name) |-> [sizeof |-> 4, raw |-> 0]]]
    /\ IdleFacade
    /\ IdleSel
    /\ IdleAux

NextTyped ==
    \/ \E ty \in ScalarTypes, a \in Addrs : ReadType(ty, a)

SpecTyped == InitTyped /\ [][NextTyped]_vars

\* --- readability: is_readable_address under every mapping list ------------
\* the ranges [lo, hi) over the addresses of the model, and the lists of
\* at most two of them the engine may enumerate
Ranges == {r \in Addrs \X (Addrs \cup {MaxAddr + 1}) : r[1] < r[2]}
RangeLists ==
    {<<>>} \cup {<<r>> : r \in Ranges} \cup {<<r, q>> : r \in Ranges, q \in Ranges}

InitReadable ==
    /\ mem = [a \in Addrs |-> 0]
    /\ perm \in [Addrs -> {"none", "r"}]
    /\ memcall = NoCall
    /\ pages = <<>>
    /\ expr = <<>>
    /\ vmmap \in RangeLists
    /\ readableCache = EmptyDict
    /\ IdleSel
    /\ IdleRegs
    /\ IdleExt

NextReadable ==
    \/ \E a \in Addrs : IsReadableAddress(a)
    \/ ReadableStop

SpecReadable == InitReadable /\ [][NextReadable]_vars

\* --- registers: engine events and facade operations ----------------------
InitRegs ==
    /\ arch \in RegArchs
    /\ \E r \in [EngineRegs(arch.name) -> [sizeof : {4}, raw : RawVals]] :
          frameRegs = [f \in RegFrameIds |->
                         IF f = 1 THEN r
                         ELSE [n \in EngineRegs(arch.name) |->
                                 [sizeof |-> 4, raw |-> 0]]]
    /\ running = FALSE
    /\ selFrame = 1
    /\ selThread = 1
    /\ call = NoCall
    /\ IdleFacade
    /\ IdleMem
    /\ IdleAux

NextRegs ==
    \/ Stop
    \/ Continue
    \/ Prompt
    \/ \E n \in SeqRange(common(arch.name)) : ReadItem(n)
    \/ \E n \in SeqRange(common(arch.name)) : ReadAttr(n)
    \/ EvalChanged
    \/ \E n \in SeqRange(common(arch.name)), v \in RawVals : WriteReg(n, v)
    \/ \E n \in EngineRegs(arch.name), v \in RawVals : Exec(n, v)

SpecRegs == InitRegs /\ [][NextRegs]_vars

\* --- inferiors: the snapshot generations across a change of architecture -
NextInferior ==
    \/ Stop
    \/ Continue
    \/ Prompt
    \/ \E n \in EngineRegs(arch.name), v \in RawVals : Exec(n, v)
    \/ \E a \in RegArchs : SwitchInferior(a)

SpecInferior == InitRegs /\ [][NextInferior]_vars

\* --- lookup: one facade read per cycle on every small register file ------
LookupArchs == {ArchI386, ArchI8086, ArchArm, ArchArmcm, ArchAarch64}

\* The register names an engine may know on each architecture
LookupRegs(archname) ==
    CASE archname \in {"i386", "i8086"} -> {"eax", "EAX", "eip", "cs"}
      [] archname = "arm" -> {"cpsr", "r0", "pc"}
      [] archname = "armcm" -> {"xPSR", "XPSR", "r0"}
      [] OTHER -> {"cpsr", "pc"}

\* The engine values a register may hold: contents wider than a 16-bit
\* pointer, a negative 16-bit integer, and a value that cannot be fetched,
\* or both sides of bits 5 and 24
LookupVals(archname) ==
    IF archname \in {"i386", "i8086"}
    THEN {[sizeof |-> 4, raw |-> 65541], [sizeof |-> 2, raw |-> -1],
          [sizeof |-> 0, raw |-> 0]}
    ELSE {[sizeof |-> 4, raw |-> 31], [sizeof |-> 4, raw |-> 32],
          [sizeof |-> 4, raw |-> 16777216], [sizeof |-> 0, raw |-> 0]}

\* The names commands read
LookupNames(archname) ==
    CASE archname \in {"i386", "i8086"} ->
             {"eax", "EAX", "$eax", "eip", "pc", "cs"}
      [] archname = "armcm" -> {"xpsr", "xPSR", "XPSR", "r0"}
      [] OTHER -> {"cpsr", "CPSR", "pc", "r0"}

FreshCycle == attrCache = EmptyDict /\ itemCache = EmptyDict

InitLookup ==
    /\ arch \in LookupArchs
    /\ \E present \in SUBSET LookupRegs(arch.name) :
          \E r \in [present -> LookupVals(arch.name)] :
             frameRegs = [f \in RegFrameIds |-> r]
    /\ running = FALSE
    /\ selFrame \in {0, 1}
    /\ selThread = 1
    /\ call = NoCall
    /\ IdleFacade
    /\ IdleMem
    /\ IdleAux

NextLookup ==
    \/ Stop
    \/ Prompt
    \/ FreshCycle /\ \E n \in LookupNames(arch.name) : ReadItem(n)
    \/ FreshCycle /\ \E n \in LookupNames(arch.name) : ReadAttr(n)
    \/ FreshCycle /\ ReadThumbBit

SpecLookup == InitLookup /\ [][NextLookup]_vars

\* --- fix: the rewriter applied to every short expression ----------------
\* bound of the length of an expression
MaxExprLen == 5

Exprs == UNION {[1..n -> ExprChars] : n \in 0..MaxExprLen}

InitFix ==
    /\ arch = ArchArm
    /\ running = FALSE
    /\ frameRegs = [f \in RegFrameIds |->
                      [n \in EngineRegs("arm") |-> [sizeof |-> 4, raw |-> 0]]]
    /\ IdleFacade
    /\ IdleSel
    /\ IdleMem
    /\ pages = <<>> /\ vmmap = <<>> /\ readableCache = EmptyDict
    /\ IdleExt
    /\ expr \in Exprs

NextFix ==
    \/ \E order \in Orders(fix_names(RegisterSetOf(arch.name))) : Fix(order)

SpecFix == InitFix /\ [][NextFix]_vars

\* --- all: the enumeration applied to every small register set -----------
\* bound of the number of names in one group of a register set
MaxGroup == 1

AllNames == {"pc", "sp"}

\* The tuples of at most MaxGroup names, and the flag tables of at most
\* MaxGroup distinct names
NameTuples == UNION {[1..n -> AllNames] : n \in 0..MaxGroup}
FlagTables ==
    {[i \in 1..Len(q) |-> <<q[i], 0>>] :
        q \in {t \in NameTuples : \A i, j \in 1..Len(t) : t[i] = t[j] => i = j}}

RegisterSets ==
    [pc : AllNames, stack : AllNames,
     frame : {None} \cup {Some(n) : n \in AllNames},
     retaddr : NameTuples, flags : FlagTables,
     gpr : NameTuples, misc : NameTuples]

InitAll ==
    /\ arch = ArchArm
    /\ running = FALSE
    /\ frameRegs = [f \in RegFrameIds |->
                      [n \in EngineRegs("arm") |-> [sizeof |-> 4, raw |-> 0]]]
    /\ IdleFacade
    /\ IdleSel
    /\ IdleMem
    /\ pages = <<>> /\ vmmap = <<>> /\ expr = <<>>
    /\ readableCache = EmptyDict
    /\ regset \in RegisterSets
    /\ typeInner = <<"TYPE_CODE_INT">>
    /\ IdleSeg
    /\ IdleBranch

NextAll ==
    \/ All

SpecAll == InitAll /\ [][NextAll]_vars

\* --- types: the operations of a type handle on every small type ---------
\* The codes of the base types the engine declares
BaseCodes ==
    {"TYPE_CODE_INT", "TYPE_CODE_UNION", "TYPE_CODE_STRUCT", "TYPE_CODE_ENUM",
     "TYPE_CODE_FLT", "TYPE_CODE_VOID"}

EngineTypes ==
    UNION {{d \o <<b>> : d \in [1..n -> DerivedCodes], b \in BaseCodes} :
              n \in 0..MaxTypeDepth}

InitType ==
    /\ IdleSel
    /\ IdleMem
    /\ IdleRegs
    /\ pages = <<>> /\ vmmap = <<>> /\ expr = <<>>
    /\ readableCache = EmptyDict
    /\ regset = RegisterSetOf(arch.name)
    /\ typeInner \in EngineTypes
    /\ IdleSeg
    /\ IdleBranch

NextType ==
    \/ Code
    \/ TypePointer
    \/ TypeTarget
    \/ TypeStripTypedefs

SpecType == InitType /\ [][NextType]_vars

\* --- segment bases: fsbase and gsbase on two threads --------------------
\* The engine values fs_base / gs_base may hold in the frame of thread t
SegValues(t) == {[sizeof |-> 8, raw |-> 16 * t], [sizeof |-> 0, raw |-> 0]}

InitSeg ==
    /\ arch \in {ArchX8664, ArchI386}
    /\ running = FALSE
    /\ \E f1 \in UNION {[present -> SegValues(1)] :
                           present \in SUBSET {"fs_base", "gs_base"}},
          f2 \in UNION {[present -> SegValues(2)] :
                           present \in SUBSET {"fs_base", "gs_base"}} :
          frameRegs = [f \in RegFrameIds |-> IF f = 1 THEN f1 ELSE f2]
    /\ selThread \in {0} \cup RegFrameIds
    /\ selFrame = selThread
    /\ call = NoCall
    /\ IdleFacade
    /\ IdleMem
    /\ pages = <<>> /\ vmmap = <<>> /\ expr = <<>>
    /\ readableCache = EmptyDict
    /\ regset = RegisterSetOf(arch.name)
    /\ typeInner = <<"TYPE_CODE_INT">>
    /\ remote \in BOOLEAN
    /\ ptids \in [ThreadIds -> {None, Some(7)}]
    /\ segCache = EmptyDict
    /\ IdleBranch

NextSeg ==
    \/ \E out \in PtraceOutcomes : Fsbase(out)
    \/ \E out \in PtraceOutcomes : Gsbase(out)
    \/ SegStop
    \/ \E t \in RegFrameIds : ThreadCommand(t)

SpecSeg == InitSeg /\ [][NextSeg]_vars

\* --- branches: conditional-branch breakpoints while the inferior runs ----
\* The values a condition may evaluate to
CondValues == {0, 1, 2}

InitBranch ==
    /\ IdleSel
    /\ IdleMem
    /\ IdleRegs
    /\ pages = <<>> /\ vmmap = <<>> /\ expr = <<>>
    /\ readableCache = EmptyDict
    /\ regset = RegisterSetOf(arch.name)
    /\ typeInner = <<"TYPE_CODE_INT">>
    /\ IdleSeg
    /\ bps = {}
    /\ branchCond \in CondValues
    /\ brcall = NoCall

NextBranch ==
    \/ \E address \in {None} \cup {Some(a) : a \in BranchAddrs},
          taken \in BOOLEAN : InstallBreakpoint(address, taken)
    \/ \E a \in BranchAddrs : Hit(a)
    \/ Resume
    \/ \E c \in CondValues : ExecFlags(c)

SpecBranch == InitBranch /\ [][NextBranch]_vars

\* --- frames: facade reads while commands select other frames -------------
InitFrames ==
    /\ arch \in RegArchs
    /\ frameRegs \in [RegFrameIds ->
                       [EngineRegs(arch.name) ->
                          [sizeof : {4}, raw : RawVals]]]
    /\ running = FALSE
    /\ selFrame \in RegFrameIds
    /\ selThread = 1
    /\ call = NoCall
    /\ IdleFacade
    /\ IdleMem
    /\ IdleAux

NextFrames ==
    \/ Stop
    \/ Prompt
    \/ \E n \in SeqRange(common(arch.name)) : ReadItem(n)
    \/ \E n \in SeqRange(common(arch.name)) : ReadAttr(n)
    \/ \E f \in RegFrameIds : FrameCommand(f)

SpecFrames == InitFrames /\ [][NextFrames]_vars

\* ========================================================================
\* Claims
\* ========================================================================

\* C1: frame-scoped evaluate_expression on a frame F, called while another
\* frame S is selected, leaves S selected when the call returns, whether the
\* evaluation succeeds or fails with an engine error.
C1_EvaluateRestoresFrame ==
    (call.op = "evaluate_expression" /\ call.before # call.target)
        => selFrame = call.before

\* C2: Thread.bottom_frame on a thread T, called while another thread S is
\* selected, leaves S selected on every exit path, including the one where
\* obtaining the newest frame fails.
C2_BottomFrameRestoresThread ==
    (call.op = "bottom_frame" /\ call.before # call.target)
        => selThread = call.before

\* The value regs.changed would return in the current state
Changed == module_changed(previous, attrCache, itemCache).val

Reads == {"getitem", "getattr"}

\* C3 (as claimed): after a write to a common register r between two STOP
\* events, with CONTINUE delivered between them, `changed` is exactly <<r>>,
\* previous[r] is the pre-write value and last[r] the post-write value.
C3_WriteShowsAsChanged ==
    scen.phase = "wcs"
        => (/\ Changed = <<scen.reg>>
            /\ DictGet(previous, scen.reg) = Some(scen.pre)
            /\ DictGet(last, scen.reg) = Some(scen.post))

\* C3 (amended): after the second STOP last[r] is the post-write value and
\* previous[r] is what the snapshot taken at CONTINUE recorded for r: the
\* post-write value, and then `changed` is empty, unless a read of r made
\* before the write was still memoised at CONTINUE, in which case it is the
\* pre-write value and `changed` is exactly <<r>>.
C3_PreviousIsContinueSnapshot ==
    scen.phase = "wcs"
        => (/\ DictGet(last, scen.reg) = Some(scen.post)
            /\ DictGet(previous, scen.reg) =
                   Some(IF scen.stale THEN scen.pre ELSE scen.post)
            /\ Changed = (IF scen.stale THEN <<scen.reg>> ELSE <<>>))

C3_Witness ==
    /\ scen.phase = "wcs"
    /\ ~scen.stale
    /\ regcall.op = "stop"
    /\ DictGet(previous, scen.reg) = Some(scen.post)

\* C4: after two consecutive STOP events with no register value changing in
\* between, `changed` is empty.
C4_NoChangeNoDelta ==
    quiet = 2 => Changed = <<>>

C4_Witness ==
    /\ quiet = 2
    /\ regcall.op = "stop"
    /\ previous # <<>>
    /\ \E i \in 1..Len(previous) : previous[i][2] = Some(1)

\* C5: each CONTINUE or STOP event shifts the generations exactly once:
\* afterwards `previous` is the `last` of before the event and `last` is a
\* map whose keys are exactly the common registers of the current
\* architecture, with nothing of the older generations kept.
C5_GenerationShift ==
    [][regcall'.op \in {"stop", "cont"}
         => (/\ previous' = last
             /\ Keys(last') = common(arch'.name))]_vars

C5_Witness ==
    /\ regcall.op \in {"stop", "cont"}
    /\ previous # <<>>
    /\ Keys(previous) # Keys(last)

\* C6: when STOP is handled, `last` is computed after the register read
\* tables were emptied for that stop: last[r] is the engine's value of every
\* common register r at the stop, never a value memoised before it.
C6_SnapshotAfterInvalidation ==
    regcall.op = "stop"
        => last = [i \in 1..Len(common(arch.name)) |->
                     <<common(arch.name)[i], EngineValue(common(arch.name)[i])>>]

C6_Witness ==
    /\ regcall.op = "stop"
    /\ regcall.stale

\* C7: a facade read is memoised within one stop/prompt cycle only: the
\* first read of a name after a stop or prompt event returns the engine's
\* current value, and a repeated read of the name before the next such
\* event returns what the earlier read returned.
C7_CachedWithinCycleOnly ==
    [][regcall'.op \in Reads
         => (IF regcall'.name \in DOMAIN served
             THEN regcall'.val = served[regcall'.name].val
             ELSE regcall'.val = EngineValue(regcall'.name))]_vars

C7_Witness ==
    /\ regcall.op = "getitem"
    /\ regcall.val # EngineValue(regcall.name)

\* C8: the register read table is bypassed when the selected frame changes:
\* a read of r made after another frame was selected, in the cycle in which
\* r was already read, returns r's value in the frame now selected.
C8_CacheBypassedOnFrameChange ==
    (regcall.op \in Reads /\ served[regcall.name].frame # selFrame)
        => regcall.val = EngineValue(regcall.name)

\* C9: poke(addr) on a readable and writable addr returns True and leaves
\* every byte of memory as it was, for every byte value stored at addr.
C9_PokeWritesSameByteBack ==
    (memcall.op = "poke" /\ perm[memcall.addr] = "rw")
        => (memcall.ret /\ ~memcall.raised /\ mem = memcall.before)

\* C10: poke(addr) returns False when addr is unreadable; when addr is
\* readable but read-only it returns False and the byte at addr is unchanged;
\* in neither case does poke raise.
C10_PokeFalseOnUnreadableOrReadOnly ==
    (memcall.op = "poke" /\ perm[memcall.addr] \in {"none", "r"})
        => (/\ ~memcall.ret
            /\ ~memcall.raised
            /\ mem[memcall.addr] = memcall.before[memcall.addr])

C10_Witness ==
    /\ memcall.op = "poke"
    /\ perm[memcall.addr] = "r"
    /\ memcall.before[memcall.addr] = 255
    /\ Writable(memcall.addr + 1)
    /\ ~memcall.ret

\* The bytes a read of at most max bytes at addr yields when a short result
\* is allowed: those of the readable addresses before the first unreadable
BoundedRead(addr, max) ==
    [i \in 1..ReadablePrefix(addr, max) |-> mem[addr + i - 1]]

\* The bytes of d before its first zero byte; d itself when it has none
UpToNul(d) ==
    SelectSeq([i \in 1..Len(d) |->
                 IF \E j \in 1..i : d[j] = 0 THEN 0 ELSE d[i]],
              LAMBDA b : b # 0)

HasNul(d) == \E i \in 1..Len(d) : d[i] = 0

\* C11 (as claimed): string(addr, max) on a readable addr returns the bytes
\* of the bounded read up to but excluding the first zero byte, and the
\* whole bounded read when it holds no zero byte.
C11_StringUpToNulOrWhole ==
    (memcall.op = "string" /\ Readable(memcall.addr))
        => (/\ ~memcall.raised
            /\ memcall.ret = UpToNul(BoundedRead(memcall.addr, memcall.max)))

\* C11 (amended): string(addr, max) on a readable addr returns the bytes of
\* the bounded read up to but excluding the first zero byte, and the empty
\* byte sequence when the bytes read hold no zero byte.
C11_StringUpToNulOrEmpty ==
    (memcall.op = "string" /\ Readable(memcall.addr))
        => (/\ ~memcall.raised
            /\ memcall.ret =
                 (IF HasNul(BoundedRead(memcall.addr, memcall.max))
                  THEN UpToNul(BoundedRead(memcall.addr, memcall.max))
                  ELSE <<>>))

C11_Witness ==
    /\ memcall.op = "string"
    /\ Readable(memcall.addr)
    /\ Len(BoundedRead(memcall.addr, memcall.max)) < memcall.max
    /\ ~HasNul(BoundedRead(memcall.addr, memcall.max))
    /\ memcall.ret = <<>>

\* C12: string(addr) at an address whose one-byte probe fails returns the
\* empty byte sequence, issues no read besides the probe, and does not raise.
C12_StringEmptyOnFailedProbe ==
    (memcall.op = "string" /\ ~Readable(memcall.addr))
        => (/\ memcall.ret = <<>>
            /\ ~memcall.raised
            /\ memcall.reads = <<ReadReq(memcall.addr, 1, FALSE)>>)

C12_Witness ==
    /\ memcall.op = "string"
    /\ ~Readable(memcall.addr)
    /\ Readable(memcall.addr + 1)
    /\ mem[memcall.addr] = 65
    /\ memcall.ret = <<>>

\* The page-aligned start of the search recorded in memcall
SearchStart == page_align(memcall.addr)

\* The number of consecutive readable pages from the page-aligned start on,
\* going up (dir = 1) or down (dir = -1)
MappedPages(dir) ==
    CHOOSE n \in 0..Cardinality(PageIds) :
        /\ \A i \in 0..(n - 1) : probe(pages, SearchStart + dir * i * PAGE_SIZE)
        /\ ~probe(pages, SearchStart + dir * n * PAGE_SIZE)

Min(a, b) == IF a < b THEN a ELSE b

Last(q) == q[Len(q)]

\* C14: the address a boundary search returns is the bound of the address
\* space or the last page address whose probe succeeded; it is never an
\* address whose probe failed or that was not probed.
C14_ReturnsLastReadablePage ==
    memcall.op \in {"upper", "lower"}
        => \/ memcall.ret = (IF memcall.op = "upper" THEN ptrmask ELSE 0)
           \/ /\ \E i \in 1..Len(memcall.probes) :
                     /\ memcall.probes[i] = memcall.ret
                     /\ probe(pages, memcall.ret)
                     /\ \A j \in (i + 1)..Len(memcall.probes) :
                            ~probe(pages, memcall.probes[j])

\* Whether every byte of the value recorded in memcall is readable
AllReadable ==
    \A i \in 0..(memcall.type.size - 1) : Readable(memcall.addr + i)

\* The weight of the byte at offset i of a scalar of `size` bytes
ByteWeight(i, size) ==
    LET k == IF arch.endian = "little" THEN i ELSE size - 1 - i
    IN IF k = 0 THEN 1 ELSE Pow2(8 * k)

\* The integer the bytes at memcall.addr denote in the target's byte order
Denoted ==
    LET size == memcall.type.size
        sum[i \in 0..size] ==
            IF i = 0 THEN 0
            ELSE sum[i - 1] + mem[memcall.addr + i - 1] * ByteWeight(i - 1, size)
        top == mem[memcall.addr +
                   (IF arch.endian = "little" THEN size - 1 ELSE 0)]
    IN IF memcall.type.signed /\ top >= 128
       THEN sum[size] - Pow2(8 * size) ELSE sum[size]

\* C15: a typed scalar read returns the integer the `size` bytes at addr
\* denote in the architecture's byte order when all of them are readable,
\* and raises the engine's error, returning no value, when one is not.
C15_TypedReadAllOrError ==
    memcall.op = "readtype"
        => (IF AllReadable
            THEN ~memcall.raised /\ memcall.val = Some(Denoted)
            ELSE memcall.raised /\ memcall.val = None)

C15_WitnessValue ==
    /\ memcall.op = "readtype"
    /\ memcall.type.name = "int16"
    /\ arch.endian = "big"
    /\ AllReadable
    /\ memcall.val = Some(-32767)

C15_Witness ==
    /\ memcall.op = "readtype"
    /\ memcall.type.size = 2
    /\ Readable(memcall.addr)
    /\ ~AllReadable
    /\ memcall.raised

\* Whether the address of the call recorded in memcall lies in a mapping
Contained ==
    \E i \in 1..Len(vmmap) :
        vmmap[i][1] <= memcall.addr /\ memcall.addr < vmmap[i][2]

\* C16: is_readable_address(a) reads from the target only when a lies in an
\* enumerated mapping range; it returns True exactly when a lies in one and
\* the one-byte read succeeds; outside every range it returns False and
\* issues no read.
C16_MappingsBeforeRead ==
    memcall.op = "is_readable"
        => (/\ memcall.reads # <<>> => Contained
            /\ \A i \in 1..Len(memcall.reads) :
                   memcall.reads[i] = ReadReq(memcall.addr, 1, FALSE)
            /\ memcall.ret = (Contained /\ Readable(memcall.addr))
            /\ ~Contained => (~memcall.ret /\ memcall.reads = <<>>))

C16_Witness ==
    /\ memcall.op = "is_readable"
    /\ ~memcall.hit
    /\ ~Contained
    /\ Readable(memcall.addr)
    /\ vmmap # <<>>
    /\ ~memcall.ret

\* Whether the selected frame has a register under the spelling nm
Present(nm) ==
    /\ selFrame # 0
    /\ (IF nm = "pc" THEN PcRegister(arch.name) ELSE nm)
           \in DOMAIN frameRegs[selFrame]

\* The contents of the register spelled nm, None when they cannot be fetched
Contents(nm) ==
    LET v == frameRegs[selFrame][IF nm = "pc" THEN PcRegister(arch.name)
                                 ELSE nm]
    IN IF v.sizeof = 0 THEN None
       ELSE Some(Unsigned(Unsigned(v.raw, v.sizeof), arch.ptrsize))

\* The contents of the first of the spellings in q that the frame has, None
\* when it has none of them
FirstPresent(q) ==
    IF \E i \in 1..Len(q) : Present(q[i])
    THEN Contents(q[CHOOSE i \in 1..Len(q) :
                      Present(q[i]) /\ \A j \in 1..(i - 1) : ~Present(q[j])])
    ELSE None

\* C17: read_thumb_bit returns None on aarch64 and on every architecture
\* outside the ARM family whatever the registers hold; on "arm" it returns
\* bit 5 of cpsr when cpsr can be read and None when not; on "armcm" it
\* returns bit 24 of xpsr when it can be read and None when not.
C17_ThumbBit ==
    regcall.op = "thumb"
        => regcall.val =
             (CASE arch.name = "arm" ->
                      (LET c == FirstPresent(<<"cpsr", "CPSR">>)
                       IN IF c = None THEN None ELSE Some((c[1] \div 32) % 2))
                [] arch.name = "armcm" ->
                      (LET x == FirstPresent(<<"xpsr", "XPSR", "xPSR">>)
                       IN IF x = None THEN None
                          ELSE Some((x[1] \div 16777216) % 2))
                [] OTHER -> None)

C17_Witness ==
    /\ regcall.op = "thumb"
    /\ arch.name = "armcm"
    /\ regcall.val = Some(1)

C17_WitnessAarch64 ==
    /\ regcall.op = "thumb"
    /\ arch.name = "aarch64"
    /\ FirstPresent(<<"cpsr">>) = Some(32)

\* The name of the read recorded in regcall, without its leading $
ReadName == lstrip_dollar(regcall.name)

\* C19 (as claimed): an attribute read of the facade looks the name up as
\* given and then upper-cased in the register set of the selected frame;
\* when the register is absent under both spellings, when no frame is
\* selected or when the engine reports an error, it returns None; it never
\* raises.
C19_LookupGivenThenUpper ==
    regcall.op = "getattr"
        => (/\ ~regcall.raised
            /\ (~Present(ReadName) /\ ~Present(upper(ReadName)))
                  => regcall.val = None
            /\ FirstPresent(<<ReadName, upper(ReadName)>>) = None
                  => regcall.val = None
            /\ (ReadName # "pc" \/ arch.name # "i8086")
                  => regcall.val = FirstPresent(<<ReadName, upper(ReadName)>>))

\* The spellings an attribute read tries, in order
Spellings(nm) ==
    IF lower(nm) = "xpsr" THEN <<nm, upper(nm), "xPSR">>
    ELSE <<nm, upper(nm)>>

\* C19 (amended): an attribute read of the facade looks the name up as
\* given, then upper-cased and, for a name that lower-cases to xpsr, then
\* as xPSR; when the register is absent under all of these spellings, when
\* no frame is selected or when the engine reports an error, it returns
\* None; it never raises.
C19_LookupGivenUpperXpsr ==
    regcall.op = "getattr"
        => (/\ ~regcall.raised
            /\ FirstPresent(Spellings(ReadName)) = None => regcall.val = None
            /\ (ReadName # "pc" \/ arch.name # "i8086")
                  => regcall.val = FirstPresent(Spellings(ReadName)))

C19_Witness ==
    /\ regcall.op = "getattr"
    /\ regcall.name = "xpsr"
    /\ ~Present("xpsr") /\ ~Present("XPSR")
    /\ regcall.val = Some(16777216)

C19_WitnessError ==
    /\ regcall.op = "getattr"
    /\ Present(ReadName)
    /\ Contents(ReadName) = None
    /\ Present(upper(ReadName)) /\ Contents(upper(ReadName)) # None
    /\ regcall.val = None

\* Whether v is an unsigned integer no greater than the pointer mask
InPointerRange(v) ==
    v >= 0 /\ (arch.ptrsize >= 4 \/ v <= ptrmask)

FixNames == {Chars(n) : n \in SeqRange(module_all(RegisterSetOf(arch.name)))}
                \cup {<<"s", "p">>, <<"p", "c">>}

\* Whether t[a..b] is a token: a run of word characters that cannot be
\* extended on either side
IsToken(t, a, b) ==
    /\ a <= b
    /\ \A i \in a..b : t[i] \in WordChars
    /\ a = 1 \/ t[a - 1] \notin WordChars
    /\ b = Len(t) \/ t[b + 1] \notin WordChars

\* Whether a bare token equal to a register name starts at position a of t
BareRegisterAt(t, a) ==
    /\ a = 1 \/ t[a - 1] # "$"
    /\ \E b \in a..Len(t) : IsToken(t, a, b) /\ SubSeq(t, a, b) \in FixNames

\* t with a dollar sign put before each bare register token
Dollared(t) ==
    LET upto[i \in 0..Len(t)] ==
            IF i = 0 THEN <<>>
            ELSE upto[i - 1]
                   \o (IF BareRegisterAt(t, i) THEN <<"$", t[i]>> ELSE <<t[i]>>)
    IN upto[Len(t)]

\* C18: fix(expression) rewrites every bare token equal to a register name
\* of all + {sp, pc} to $name and leaves everything else as it is, a
\* register name inside a longer identifier included.
C18_FixRewritesBareTokens ==
    regcall.op = "fix" => expr = Dollared(regcall.arg)

C18_Witness ==
    /\ regcall.op = "fix"
    /\ regcall.arg = <<"p", "c", "+", "s", "p">>
    /\ expr = <<"$", "p", "c", "+", "$", "s", "p">>

C18_WitnessLonger ==
    /\ regcall.op = "fix"
    /\ regcall.arg = <<"s", "p", "c", "+", "p">>
    /\ expr = regcall.arg

\* The name a recorded facade read hands to get_register
LookupName ==
    IF regcall.op = "getitem" THEN lower(lstrip_dollar(regcall.name))
    ELSE lstrip_dollar(regcall.name)

\* The contents of the register spelled nm as an unsigned integer of the
\* register's own width, None when they cannot be fetched
RawContents(nm) ==
    LET v == frameRegs[selFrame][IF nm = "pc" THEN PcRegister(arch.name)
                                 ELSE nm]
    IN IF v.sizeof = 0 THEN None ELSE Some(Unsigned(v.raw, v.sizeof))

\* RawContents of the spelling get_register settles on, None when the frame
\* has the register under neither spelling
RawFirstPresent(nm) ==
    IF Present(nm) THEN RawContents(nm)
    ELSE IF Present(upper(nm)) THEN RawContents(upper(nm))
    ELSE None

\* C21: on i8086 a read of pc returns (raw_pc + cs * 16) masked to the
\* pointer mask, and None without raising when cs cannot be read; on every
\* other architecture and for every other register the read returns the
\* register's own contents masked, with no segment term.
C21_SegmentedPc ==
    regcall.op \in Reads
        => IF LookupName = "pc" /\ arch.name = "i8086"
           THEN LET raw_pc == RawFirstPresent("pc")
                    cs == RawFirstPresent("cs")
                IN /\ ~regcall.raised
                   /\ raw_pc = None => regcall.val = None
                   /\ (raw_pc # None /\ cs = None) => regcall.val = None
                   /\ (raw_pc # None /\ cs # None)
                         => regcall.val
                              = Some((raw_pc[1] + cs[1] * 16) % (ptrmask + 1))
           ELSE regcall.val = FirstPresent(Spellings(LookupName))

C21_Witness ==
    /\ regcall.op = "getattr" /\ regcall.name = "pc"
    /\ arch.name = "i8086"
    /\ RawFirstPresent("pc") = Some(65541)
    /\ RawFirstPresent("cs") = Some(65535)
    /\ regcall.val = Some(65525)

C21_WitnessNoSegment ==
    /\ regcall.op = "getattr" /\ regcall.name = "pc"
    /\ arch.name = "i8086"
    /\ RawFirstPresent("pc") # None
    /\ ~Present("cs")
    /\ regcall.val = None /\ ~regcall.raised

C21_WitnessOtherRegister ==
    /\ regcall.op = "getattr" /\ regcall.name = "eip"
    /\ arch.name = "i8086"
    /\ RawFirstPresent("cs") = Some(65535)
    /\ regcall.val = Some(5)

\* The groups of a register set in the order `all` visits them, each as the
\* list of the names it holds
GroupsInOrder(regs) ==
    <<<<regs.pc>>, <<regs.stack>>,
      IF regs.frame = None THEN <<>> ELSE <<regs.frame[1]>>,
      regs.retaddr,
      [i \in 1..Len(regs.flags) |-> regs.flags[i][1]],
      regs.gpr, regs.misc>>

\* The number of names in the first k groups
NamesBefore(groups, k) ==
    LET sum[i \in 0..k] == IF i = 0 THEN 0 ELSE sum[i - 1] + Len(groups[i])
    IN sum[k]

\* C22: `all` is the concatenation, in this order, of program counter,
\* stack pointer, frame pointer, return-address chain, flag names,
\* general-purpose names and miscellaneous names of the register set; an
\* absent (None) group contributes nothing and nothing is de-duplicated:
\* each group's names stand in the result, one after the other, right after
\* the names of the groups before it, and the result has no other element.
C22_AllIsConcatenation ==
    regcall.op = "all"
        => LET groups == GroupsInOrder(regset)
           IN /\ Len(regcall.ret) = NamesBefore(groups, Len(groups))
              /\ \A k \in 1..Len(groups) :
                    \A i \in 1..Len(groups[k]) :
                       regcall.ret[NamesBefore(groups, k - 1) + i]
                          = groups[k][i]

C22_Witness ==
    /\ regcall.op = "all"
    /\ regset.frame = None
    /\ regset.pc = "pc" /\ regset.stack = "sp"
    /\ regset.retaddr = <<"sp">> /\ regset.gpr = <<"pc">>
    /\ regset.flags = <<>> /\ regset.misc = <<"pc">>
    /\ regcall.ret = <<"pc", "sp", "sp", "pc", "pc">>

\* The faults that tell of a defect of the code, as opposed to the error the
\* engine reports at run time
ProgrammingFaults == {"AssertionError", "NameError", "KeyError"}

\* C23 (as claimed): Type.code returns, for every engine type code of the
\* translation table, the TypeCode member the table gives it, and raises a
\* programming-error fault for an engine code the table lacks.
C23_CodeTranslatesOrFaults ==
    call.op = "code"
        => IF call.inner_code \in DOMAIN CODE_MAPPING
           THEN /\ call.raised = "none"
                /\ call.val = Some(CODE_MAPPING[call.inner_code])
           ELSE call.raised \in ProgrammingFaults

\* What the claim says a read of a segment base returns, given the state
\* it is made in
SegmentBaseAsClaimed ==
    IF arch.name # "x86-64"
    THEN (remote \/ (selThread # 0 /\ ptids[selThread] = None))
            => /\ regcall.ret = 0
               /\ ~regcall.raised
               /\ regcall.ptrace = <<>>
    ELSE LET reg == RawFirstPresent(regcall.regname)
             held == Present(regcall.regname)
                        \/ Present(upper(regcall.regname))
         IN /\ ~held => (regcall.ret = 0 /\ ~regcall.raised)
            /\ (held /\ reg # None)
                  => (regcall.ret = reg[1] /\ ~regcall.raised)

\* C24 (as claimed): on an architecture other than x86-64, fsbase and
\* gsbase return 0 whenever the target is remote or the selected thread has
\* no lightweight thread id, without a ptrace call and without raising; on
\* x86-64 they return the fs_base / gs_base register as read from the
\* engine, or 0 when the register is absent.
C24_SegmentBases ==
    regcall.op \in {"fsbase", "gsbase"} => SegmentBaseAsClaimed

\* The address the search would probe after its k-th probe
SteppedAfter(k) ==
    SearchStart + (IF memcall.op = "upper" THEN k ELSE -k) * PAGE_SIZE

\* C25 (as claimed): find_upper_boundary and find_lower_boundary end after
\* at most max_pages one-byte probes, made at consecutive pages from the
\* page-aligned start; they stop at the first failed read, when max_pages
\* probes have been made, or when the stepped address leaves 0..ptrmask;
\* and the address returned lies in 0..ptrmask.
C25_SearchBoundedAndInRange ==
    memcall.op \in {"upper", "lower"}
        => LET n == Len(memcall.probes)
           IN /\ n <= memcall.max_pages
              /\ \A i \in 1..n : memcall.probes[i] = SteppedAfter(i - 1)
              /\ \A i \in 1..(n - 1) : probe(pages, memcall.probes[i])
              /\ \/ n >= 1 /\ ~probe(pages, memcall.probes[n])
                 \/ n = memcall.max_pages
                 \/ SteppedAfter(n) < 0 \/ SteppedAfter(n) > ptrmask
              /\ memcall.ret >= 0 /\ memcall.ret <= ptrmask

\* C26 (as claimed): when a register that was read in this stop/prompt
\* cycle has just been assigned the value v through the facade, the next
\* facade read of that register returns v masked to pointer width.
C26_ReadYourWrite ==
    [][(/\ regcall.op = "setattr"
        /\ regcall.read
        /\ regcall'.op \in Reads
        /\ regcall'.name = regcall.name)
          => regcall'.val = Some(Unsigned(regcall.val, arch.ptrsize))]_vars

\* C27: BreakOnConditionalBranch.stop returns True exactly when (the
\* condition of the instruction is non-zero, or the instruction has no
\* condition) equals the breakpoint's `taken` flag; on an unconditional
\* jump a break-if-taken breakpoint always stops and a break-if-not-taken
\* breakpoint never does.
C27_StopIffOutcomeMatches ==
    brcall.op = "hit"
        => \A b \in DOMAIN brcall.rets :
              /\ brcall.rets[b]
                   = ((b.instruction.kind = "jmp" \/ brcall.cond # 0) = b.taken)
              /\ b.instruction.kind = "jmp" => brcall.rets[b] = b.taken

C27_Witness ==
    /\ brcall.op = "hit"
    /\ brcall.address = 1
    /\ \E b \in DOMAIN brcall.rets : b.taken /\ brcall.rets[b]
    /\ \E b \in DOMAIN brcall.rets : ~b.taken /\ ~brcall.rets[b]
    /\ ~running

C27_WitnessConditional ==
    /\ brcall.op = "hit"
    /\ brcall.address = 0
    /\ brcall.cond = 2
    /\ \E b \in DOMAIN brcall.rets : b.taken /\ brcall.rets[b]

C27_WitnessNotTaken ==
    /\ brcall.op = "hit"
    /\ brcall.address = 0
    /\ brcall.cond = 0
    /\ \E b \in DOMAIN brcall.rets : ~b.taken /\ brcall.rets[b]
    /\ ~running

\* C28: fix is idempotent: applied to what fix has returned, it returns it
\* unchanged; a register reference that already has its dollar sign is not
\* given a second one.
C28_FixIdempotent ==
    (regcall.op = "fix" /\ regcall.again) => expr = regcall.arg

C28_Witness ==
    /\ regcall.op = "fix" /\ regcall.again
    /\ regcall.arg = <<"$", "p", "c", "+", "$", "s", "p">>
    /\ expr = <<"$", "p", "c", "+", "$", "s", "p">>

C28_WitnessDoubleDollar ==
    /\ regcall.op = "fix" /\ regcall.again
    /\ regcall.arg = <<"$", "$", "p", "c">>
    /\ expr = regcall.arg

====
